---- MODULE Spec2Model ----
(***************************************************************************)
(* Model of devin-text, its browser runtime:                               *)
(*   - Subscribable (src/src/lib/subs.ts, copied into _Scroll):            *)
(*     the priority ordered callback registry behind Raf, Resize, Scroll;  *)
(*   - the lifecycle registries onMount/onDestroy/onPageIn/onPageOut and   *)
(*     their runners (src/src/utils/client-rect.ts);                       *)
(*   - createCycles, the data-module scan (modules/_ index);               *)
(*   - the page controller: constructor, transitionOut, transitionIn       *)
(*     (src/src/lib/pages.ts, src/src/app.ts), and the hooks of the router *)
(*     transition (onLeave / onEnter, src/unnamed/part_002);               *)
(*   - Resize and its debounce timer (src/src/lib/subs.ts);                *)
(*   - Track, its Scroll and Resize subscriptions and its cleanup through  *)
(*     onTrack (modules/_ track, src/src/utils/client-rect.ts);            *)
(*   - hey: SimpleEmitter, State and the state proxy (src/src/lib/hey.ts); *)
(*   - handleEditor (src/src/webflow/detect-editor.ts);                    *)
(*   - ObserverManager, the grouping of observed elements (modules/_       *)
(*     observe, described in src/docs/observer-track-system.md);           *)
(*   - the dev server: rebuildFiles, the file watcher and the live-reload  *)
(*     websockets (src/bin/dev.ts).                                        *)
(*                                                                         *)
(* The specifications share the variables:                                 *)
(*   SpecSubs    - add / remove / notify on one Subscribable;              *)
(*   SpecLife    - page load and navigations over the lifecycle registries;*)
(*   SpecCycles  - createCycles on a changing document, bindings may throw;*)
(*   SpecResize  - window resizes, Resize.update and its timers;           *)
(*   SpecTrack   - one Track under scroll, resize and intersection events; *)
(*   SpecCleanup - onTrack / onDestroy registrations, then runDestroy;     *)
(*   SpecHey     - on / once / off and assignments through hey;            *)
(*   SpecEditor  - handleEditor calls and changes of body's child list;    *)
(*   SpecManager - addElement / removeElement on the ObserverManager;      *)
(*   SpecEnter   - transitionIn on a window that is being resized;         *)
(*   SpecNav     - navigations requested while a transition is running;    *)
(*   SpecPass    - notify passes whose callbacks call add or remove;       *)
(*   SpecLate    - navigations with callbacks registered during a run;     *)
(*   SpecDev     - the dev server under file changes and websockets.       *)
(***************************************************************************)
EXTENDS Integers, Sequences, FiniteSets, TLC

VARIABLES
  subscribers,   \* Subscribable.#subscribers: Seq of [fn, priority, id]
  nextSym,       \* number of Symbol() identities created so far
  notified,      \* entries invoked by the last notify(), in call order
  notifyCount,   \* number of notify() calls made
  mount,         \* registry `mount`   (client-rect.ts:48)
  destroy,       \* registry `destroy` (client-rect.ts:47)
  pageIn,        \* registry `pageIn`  (client-rect.ts:73)
  pageOut,       \* registry `pageOut` (client-rect.ts:72)
  nextCb,        \* number of callbacks registered so far (callback identity)
  dom,           \* elements with a data-module attribute now in the document
  born,          \* elements that have ever been in the document
  initialized,   \* elements whose _moduleInitialized flag is set
  invocations,   \* per element: how many times its binding was invoked
  successes,     \* per element: how many invocations returned normally
  scroll,        \* Scroll.scroll, the scroll position
  resizeHeight,  \* Resize.height
  runs,          \* one record per controller run (constructor, transitionOut/In)
  nav,           \* phase of the page: boot, app, idle, leaving, swap, enter, ...
  winWidth,      \* window.innerWidth
  winHeight,     \* window.innerHeight
  resizeWidth,   \* Resize.width
  timeoutId,     \* Resize.timeoutId (0: null)
  timers,        \* pending window timers: set of [id, remaining]
  nextTimer,     \* number of timers created so far
  quiet,         \* time since the last call of Resize.update (capped)
  burst,         \* calls of Resize.update since the last one made with no timer pending
  fired,         \* number of debounce timers whose callback has run
  resizeLog,     \* data of the notify() calls made by Resize, in order
  tracks,        \* the Track instances created so far: Seq of records
  scrollSubs,    \* Scroll's subscribers: Seq of [fn, priority, id]
  resizeSubs,    \* Resize's subscribers: Seq of [fn, priority, id]
  symCount,      \* number of Symbol() identities handed to Scroll and Resize
  trackLog,      \* the notifications delivered to the Tracks, in order
  events,        \* SimpleEmitter.events: event name -> Seq of registered functions
  heyState,      \* State.state: property name -> stored value
  regCount,      \* number of on() and once() calls made so far
  heyOp,         \* the last operation on hey and what it did
  editorState,   \* whether body's first child is the .w-editor-publish-node
  observers,     \* the MutationObservers made by handleEditor: Seq of records
  mutations,     \* number of changes of body's child list so far
  editorLog,     \* the calls of onEditorView callbacks, in order
  groups,        \* ObserverManager: group key -> [observer, entries]
  natives,       \* the native intersection observers made so far: Seq of records
  tracked,       \* elements added to the manager and not removed since
  enterLog,      \* per transitionIn: what Resize held when pageIn was mapped
  hookCalls,     \* the calls of Transition.onLeave / onEnter and their outcome
  passLog,       \* the notify passes whose callbacks call add or remove
  lateRegs,      \* callbacks registered while a run of their registry awaited
  rebuilds,      \* dev server: the calls of rebuildFiles, in the order started
  currentBuildResult, \* dev server: 0 for null, else the rebuild that set it
  clients,       \* dev server: the open websockets
  reloads,       \* dev server: <<client, rebuild>> for every "reload" sent
  serving        \* dev server: the process is running

subsVars == <<subscribers, nextSym, notified, notifyCount>>
regVars == <<mount, destroy, pageIn, pageOut, nextCb>>
domVars == <<dom, born, initialized, invocations, successes>>
lifeVars == <<mount, destroy, pageIn, pageOut, nextCb, dom, born, initialized,
              invocations, successes, scroll, resizeHeight, runs, nav>>
resizeVars == <<winWidth, winHeight, resizeWidth, timeoutId, timers, nextTimer,
                quiet, burst, fired, resizeLog>>
trackVars == <<tracks, scrollSubs, resizeSubs, symCount, trackLog>>
heyVars == <<events, heyState, regCount, heyOp>>
editorVars == <<editorState, observers, mutations, editorLog>>
managerVars == <<groups, natives, tracked>>
enterVars == <<enterLog>>
navVars == <<hookCalls>>
passVars == <<passLog>>
lateVars == <<lateRegs>>
devVars == <<rebuilds, currentBuildResult, clients, reloads, serving>>
svcVars == <<managerVars, enterVars, navVars, passVars, lateVars, devVars>>
extVars == <<resizeVars, trackVars, heyVars, editorVars, svcVars>>
vars == <<subscribers, nextSym, notified, notifyCount, mount, destroy, pageIn,
          pageOut, nextCb, dom, born, initialized, invocations, successes,
          scroll, resizeHeight, runs, nav, extVars>>

----------------------------------------------------------------------------
(* Bounds of the Subscribable model *)

MaxSubs == 4
MaxNotify == 2

Fns == 1..2
Priorities == {-1, 0, 1}

----------------------------------------------------------------------------
(* Subscribable, src/src/lib/subs.ts:5-26 (same code in _Scroll) *)

\* Array.prototype.findIndex with the predicate of add(): the first index
\* whose entry satisfies the test, 0 when there is none (JS: -1).
\* Variant of the search that stops at an entry of equal priority.
RECURSIVE FindIndexFromGeq(_, _, _)
FindIndexFromGeq(subs, priority, i) ==
  IF i > Len(subs) THEN 0
  ELSE IF subs[i].priority >= priority THEN i
  ELSE FindIndexFromGeq(subs, priority, i + 1)

RECURSIVE FindIndexFrom(_, _, _)
FindIndexFrom(subs, priority, i) ==
  IF i > Len(subs) THEN 0
  ELSE IF subs[i].priority > priority THEN i
  ELSE FindIndexFrom(subs, priority, i + 1)

FindIndex(subs, priority) == FindIndexFrom(subs, priority, 1)

\* Array.prototype.splice(index, 0, entry): insert before position index.
Splice(subs, index, entry) ==
  SubSeq(subs, 1, index - 1) \o <<entry>> \o SubSeq(subs, index, Len(subs))

\* add(fn, priority, id): push when no later-priority entry exists, else
\* insert in front of the first entry with a greater priority.
AddEntry(subs, entry) ==
  LET index == FindIndex(subs, entry.priority)
  IN  IF index = 0 THEN Append(subs, entry)
      ELSE Splice(subs, index, entry)

\* Variant that drops every entry of the priority of the entry named.
RemoveSamePriority(subs, id) ==
  SelectSeq(subs, LAMBDA f : \A g \in {subs[i] : i \in 1..Len(subs)} :
                                g.id = id => f.priority # g.priority)

\* remove(id): filter out every entry carrying the identity.
RemoveEntry(subs, id) == SelectSeq(subs, LAMBDA f : f.id # id)

\* notify(data): forEach over the subscribers in array order.
NotifyCalls(subs) == IF Len(subs) < 1 THEN <<>> ELSE subs

----------------------------------------------------------------------------
(* Operations on one Subscribable *)

\* add(fn, priority) with the default identity, a fresh Symbol().
Add(fn, priority) ==
  /\ nextSym < MaxSubs
  /\ subscribers' = AddEntry(subscribers,
                        [fn |-> fn, priority |-> priority, id |-> nextSym + 1])
  /\ nextSym' = nextSym + 1
  /\ UNCHANGED <<notified, notifyCount>>
  /\ UNCHANGED lifeVars
  /\ UNCHANGED extVars

\* remove(id), also what the function returned by add() calls.
Remove(id) ==
  /\ subscribers' = RemoveEntry(subscribers, id)
  /\ UNCHANGED <<nextSym, notified, notifyCount>>
  /\ UNCHANGED lifeVars
  /\ UNCHANGED extVars

\* notify(data) with callbacks that do not touch the registry.
Notify ==
  /\ notifyCount < MaxNotify
  /\ notified' = NotifyCalls(subscribers)
  /\ notifyCount' = notifyCount + 1
  /\ UNCHANGED <<subscribers, nextSym>>
  /\ UNCHANGED lifeVars
  /\ UNCHANGED extVars

----------------------------------------------------------------------------
(* Bounds and inputs of the lifecycle model *)

MaxElems == 3      \* data-module elements that ever exist
MaxScroll == 2     \* scroll positions 0..MaxScroll
MaxRuns == 4       \* controller runs: constructor, transitionOut, transitionIn
MaxScans == 3      \* calls of createCycles in SpecCycles
MaxLate == 1       \* callbacks registered while a run of their registry waits
MaxHooks == 2      \* calls of the hooks of the router transition
MaxRebuilds == 3   \* calls of rebuildFiles: the initial one and file changes
MaxClients == 2    \* websockets that ever connect to /_reload
ElemSpan == 2      \* height of every element in the document
ViewportHeight == 2

Elements == 1..MaxElems
ScrollPositions == 0..MaxScroll

\* Document-space span of element e: elements are stacked top to bottom.
DocTop(e) == ElemSpan * (e - 1)
DocBottom(e) == DocTop(e) + ElemSpan

\* The data-module attribute carried by element e.
Attrs == <<"cycle", "ilya", "ghost", "data">>
AttrOf(e) == Attrs[((e - 1) % Len(Attrs)) + 1]

\* What a binding invocation does: return, throw before registering
\* anything, or throw after its registrations.
BindOutcomes == {"ok", "early", "late"}

----------------------------------------------------------------------------
(* Lifecycle registries, src/src/utils/client-rect.ts:46-103 *)

\* A registry entry.  guard is the element of onPageOut's {element} option
\* (0 without one); async tells whether the pushed function is an async
\* function (it then never throws synchronously); reg is the scroll position
\* at registration.
NewEntry(id, owner, guard, async) ==
  [id |-> id, owner |-> owner, guard |-> guard, async |-> async, reg |-> scroll]

\* The registries threaded through a synchronous stretch of code.
Registries ==
  [mount |-> mount, destroy |-> destroy, pageIn |-> pageIn,
   pageOut |-> pageOut, next |-> nextCb]

OnMount(R, owner) ==
  [R EXCEPT !.mount = Append(@, NewEntry(R.next + 1, owner, 0, FALSE)),
            !.next = @ + 1]

\* destroy.push(fn)
OnDestroyEntry(reg, entry) == Append(reg, entry)

OnDestroy(R, owner) ==
  [R EXCEPT !.destroy = Append(@, NewEntry(R.next + 1, owner, 0, FALSE)),
            !.next = @ + 1]

OnPageIn(R, owner, async) ==
  [R EXCEPT !.pageIn = Append(@, NewEntry(R.next + 1, owner, 0, async)),
            !.next = @ + 1]

\* With an element the registry receives an async wrapper that tests the
\* element when it is called; without one it receives fn itself.
OnPageOut(R, owner, element, async) ==
  IF element # 0
  THEN [R EXCEPT !.pageOut = Append(@, NewEntry(R.next + 1, owner, element, TRUE)),
                 !.next = @ + 1]
  ELSE [R EXCEPT !.pageOut = Append(@, NewEntry(R.next + 1, owner, 0, async)),
                 !.next = @ + 1]

\* element.getBoundingClientRect(): viewport coordinates of the element;
\* an element that is not in the document has an all-zero rect.
BoundingClientRect(e) ==
  IF e \in dom
  THEN [top |-> DocTop(e) - scroll, bottom |-> DocBottom(e) - scroll]
  ELSE [top |-> 0, bottom |-> 0]

\* Variant that tests the element where it was when onPageOut was called.
WasVisibleAtRegistration(entry) ==
  /\ entry.guard \in dom
  /\ DocTop(entry.guard) - entry.reg < resizeHeight
  /\ DocBottom(entry.guard) - entry.reg > 0

\* The test made by the onPageOut wrapper when it is called.
IsCurrentlyVisible(entry) ==
  LET rect == BoundingClientRect(entry.guard)
  IN  rect.top < resizeHeight /\ rect.bottom > 0

\* One event of a run's log.  flag: the callback body was invoked;
\* ok: it returned normally.
Ev(ev, cb, flag, ok) == [ev |-> ev, cb |-> cb, flag |-> flag, ok |-> ok]

\* forEach of runMount / runDestroy: callbacks are called in array order;
\* k is the index of the first callback that throws (0: none does), the
\* callbacks behind it are not reached.
RunSync(reg, k, name) ==
  [i \in 1..(IF k = 0 THEN Len(reg) ELSE k) |->
      Ev(name, reg[i].id, TRUE, i # k)]

\* Variant that never truncates the registry.
AfterRunSyncKept(reg, k) == reg

\* The registry after runMount / runDestroy: `length = 0` is only reached
\* when forEach returned.
AfterRunSync(reg, k) == IF k = 0 THEN <<>> ELSE reg

\* Indices of the callbacks that can throw synchronously inside map().
SyncThrowers(reg) == {i \in 1..Len(reg) : ~reg[i].async}

\* pageOut.map((fn) => fn()) / pageIn.map(...): every callback is called in
\* array order; k is the index of the first one that throws synchronously.
Dispatch(reg, k, name) ==
  [i \in 1..(IF k = 0 THEN Len(reg) ELSE k) |->
      Ev(name, reg[i].id,
         reg[i].guard = 0 \/ IsCurrentlyVisible(reg[i]),
         i # k)]

\* The promises returned by the map: all of them, or those returned before
\* the synchronous throw (these are never awaited).
Pending(reg, k) ==
  {reg[i].id : i \in 1..(IF k = 0 THEN Len(reg) ELSE k - 1)}

----------------------------------------------------------------------------
(* createCycles, src/unnamed/part_004:1-60 *)

\* import.meta.glob("../*.{ts,js}"): module path -> kind of its default
\* export.  A path is the pair <<name, extension>>.
modules ==
  (<<"cycle", "ts">> :> "function") @@
  (<<"ilya", "js">> :> "function") @@
  (<<"data", "ts">> :> "object")

\* The .ts path when the glob has it, the .js path otherwise.
ModulePath(attributeValue) ==
  IF <<attributeValue, "ts">> \in DOMAIN modules
  THEN <<attributeValue, "ts">>
  ELSE <<attributeValue, "js">>

\* The bindings: src/src/modules/cycle.ts registers an async pageIn, an
\* element guarded pageOut, a mount and a destroy callback; the module of
\* src/unnamed/part_005 registers plain functions, pageOut without element.
Binding(name, R, e) ==
  IF name = "cycle"
  THEN OnDestroy(OnMount(OnPageOut(OnPageIn(R, e, TRUE), e, e, TRUE), e), e)
  ELSE OnPageOut(OnPageIn(OnDestroy(OnMount(R, e), e), e, FALSE), e, 0, FALSE)

\* Variant without the flag test.
NeverInitialized(init, e) == FALSE

\* `if (htmlElement._moduleInitialized) return null`
AlreadyInitialized(init, e) == e \in init

\* Variant whose catch leaves the flag set.
FlagKeptAfterBinding(init, e, threw) == init \cup {e}

\* The flag is set before the binding is called and deleted in the catch.
FlagAfterBinding(init, e, threw) ==
  IF threw THEN (init \cup {e}) \ {e} ELSE init \cup {e}

\* The map callback of createCycles for one element.  C carries the
\* registries, the flags, the invocation counters and the log.
CreateCyclesStep(C, e, outcome) ==
  IF AlreadyInitialized(C.init, e) THEN C
  ELSE
    LET modulePath == ModulePath(AttrOf(e))
    IN  IF modulePath \in DOMAIN modules
        THEN IF modules[modulePath] = "function"
             THEN LET threw == outcome # "ok"
                  IN  [R |-> IF outcome = "early" THEN C.R
                             ELSE Binding(AttrOf(e), C.R, e),
                       init |-> FlagAfterBinding(C.init, e, threw),
                       inv |-> [C.inv EXCEPT ![e] = @ + 1],
                       succ |-> [C.succ EXCEPT ![e] = IF threw THEN @ ELSE @ + 1],
                       log |-> Append(C.log, Ev("bind", e, TRUE, ~threw))]
             ELSE C   \* default export is not a function: warn
        ELSE C        \* module not found: warn

\* document.querySelectorAll: the elements in document order.
RECURSIVE DocumentOrder(_)
DocumentOrder(S) ==
  IF S = {} THEN <<>>
  ELSE LET e == CHOOSE x \in S : \A y \in S : x <= y
       IN  <<e>> \o DocumentOrder(S \ {e})

\* What the binding of e does when it is invoked (it returns normally
\* where oc says nothing).
OutcomeOf(oc, e) == IF e \in DOMAIN oc THEN oc[e] ELSE "ok"

RECURSIVE CreateCyclesFrom(_, _, _)
CreateCyclesFrom(es, C, oc) ==
  IF es = <<>> THEN C
  ELSE CreateCyclesFrom(Tail(es),
                        CreateCyclesStep(C, Head(es), OutcomeOf(oc, Head(es))), oc)

\* createCycles() on the current document; oc gives, for every element, what
\* its binding does if it is invoked.
CreateCycles(oc) ==
  CreateCyclesFrom(DocumentOrder(dom),
                   [R |-> Registries, init |-> initialized, inv |-> invocations,
                    succ |-> successes,
                    log |-> <<Ev("createCycles", 0, TRUE, TRUE)>>],
                   oc)

----------------------------------------------------------------------------
(* Resize, src/src/lib/subs.ts:41-70 *)

MaxWin == 2            \* window widths and heights 1..MaxWin
MaxResizeEvents == 3   \* calls of Resize.update
TimeStep == 50         \* the longest stretch of time passing in one step

debounceDelay == 100

WinSizes == 1..MaxWin

\* Variant of clearTimeout that leaves the timer pending.
KeepTimeout(ts, id) == ts

\* window.clearTimeout(id)
ClearTimeout(ts, id) == {t \in ts : t.id # id}

\* window.setTimeout(callback, delay) with the identity id.
SetTimeout(ts, id, delay) == ts \cup {[id |-> id, remaining |-> delay]}

\* `newWidth !== this.width || newHeight !== this.height`
DimensionsChanged(newWidth, newHeight) ==
  newWidth # resizeWidth \/ newHeight # resizeHeight

\* The time until the next timer is due.
NextDue == IF timers = {} THEN TimeStep
           ELSE CHOOSE d \in {t.remaining : t \in timers} :
                  \A t \in timers : d <= t.remaining

ResizeFrame ==
  UNCHANGED <<subsVars, regVars, domVars, scroll, runs, nav, trackVars, heyVars,
              editorVars, svcVars>>

\* Resize.update(): clear the pending timer, if any, and start a new one.
Update ==
  /\ nextTimer < MaxResizeEvents
  /\ timers' = SetTimeout(IF timeoutId # 0 THEN ClearTimeout(timers, timeoutId)
                          ELSE timers,
                          nextTimer + 1, debounceDelay)
  /\ timeoutId' = nextTimer + 1
  /\ nextTimer' = nextTimer + 1
  /\ quiet' = 0
  /\ burst' = IF timers = {} THEN 1 ELSE burst + 1
  /\ UNCHANGED fired

----------------------------------------------------------------------------
(* The page controller: src/src/lib/pages.ts:30-72, src/src/app.ts:7-18,  *)
(* and the hooks of the router transition, src/unnamed/part_002           *)

RunIds == DOMAIN runs

\* Variant in which the join is not awaited.
ReadyNoWait(r) == runs[r].pc = "await"

\* A run whose join has nothing left to wait for: its continuation is a
\* queued microtask and runs before any other task of the event loop.
Ready(r) == runs[r].pc = "await" /\ runs[r].pend = {}

\* A run with a continuation in the microtask queue: its join has settled,
\* or its runner has returned ("cleared": the promise of runPageOut /
\* runPageIn, the inner await and the await of Promise.allSettled resolve
\* one microtask after the other), or transitionOut / transitionIn has
\* returned and the await of its caller resumes next ("returned").
Queued(r) == Ready(r) \/ runs[r].pc \in {"cleared", "returned"}

NoMicrotask == \A r \in RunIds : ~Queued(r)

\* Variant with the semantics of Promise.all: the first rejection rejects.
JoinAfterSettleAll(pc, ok) == IF ok THEN pc ELSE "failed"

\* Promise.allSettled: a rejected promise leaves the join waiting for the
\* remaining promises, it never rejects the join.
JoinAfterSettle(pc, ok) == pc

\* State of an async function after the map of its runner: the runner's
\* promise rejects when a callback threw synchronously.
AfterDispatch(k) == IF k = 0 THEN "await" ELSE "failed"

\* A run: the async function's state (await, cleared, returned, done,
\* failed), the log of what
\* it called, the promises it still waits for, and those that rejected.
\* A run of a constructor is done when its runPageIn() has returned; a
\* run of a transition is done when the caller that awaits it has resumed.
\* over: the calls of transitionOut that were waiting when this one began.
NewRun(kind, pc, log, pend) ==
  [kind |-> kind, pc |-> pc, log |-> log, pend |-> pend, rejected |-> {},
   over |-> {}]

\* The modules of the page are evaluated.  The entry of the build is
\* app.ts, whose evaluation ends with `new _App()` (nav = "boot" to "app");
\* a page whose script imports lib/pages.ts evaluates "@/app" first and then
\* ends with `new _Pages()` (nav = "app" to "idle").  The evaluation is
\* synchronous: the second constructor, when there is one, runs before any
\* continuation or task.  Where only _App is constructed, the first
\* continuation or task finds nav = "app" and leaves nav = "loaded": no
\* _Pages exists there and no transition is ever called.
AfterModules(n) == IF n = "app" THEN "loaded" ELSE n

\* The constructor of _App (nav = "boot") and, after it, of _Pages
\* (nav = "app"), with the same three statements:
\* createCycles(); runPageIn(); runMount();
\* runPageIn() is not awaited, its continuation stays behind as run "init".
\* The second createCycles() finds every element flagged, the second
\* runPageIn() maps the registry the first one has not truncated yet, and
\* the second runMount() finds the registry the first one emptied.  A mount
\* callback that throws ends the evaluation of the modules.
Construct(oc) ==
  /\ nav \in {"boot", "app"}
  /\ Len(runs) < MaxRuns
  /\ LET C == CreateCycles(oc)
     IN  \E kIn \in {0} \cup SyncThrowers(C.R.pageIn), kMount \in 0..Len(C.R.mount) :
           /\ mount' = AfterRunSync(C.R.mount, kMount)
           /\ destroy' = C.R.destroy
           /\ pageIn' = C.R.pageIn
           /\ pageOut' = C.R.pageOut
           /\ nextCb' = C.R.next
           /\ initialized' = C.init
           /\ invocations' = C.inv
           /\ successes' = C.succ
           /\ runs' = Append(runs,
                 NewRun("init", AfterDispatch(kIn),
                        C.log \o Dispatch(C.R.pageIn, kIn, "pageIn")
                              \o RunSync(C.R.mount, kMount, "mount")
                              \o (IF kMount = 0
                                  THEN <<Ev("clearMount", 0, TRUE, TRUE)>>
                                  ELSE <<>>),
                        Pending(C.R.pageIn, kIn)))
           /\ nav' = IF kMount # 0 THEN "crashed"
                     ELSE IF nav = "boot" THEN "app" ELSE "idle"
  /\ UNCHANGED <<dom, born, scroll, resizeHeight>>
  /\ UNCHANGED subsVars
  /\ UNCHANGED extVars

\* Continuation of the constructor's runPageIn(): pageIn.length = 0.
FinishInit(r) ==
  /\ r \in RunIds
  /\ runs[r].kind = "init"
  /\ Ready(r)
  /\ pageIn' = <<>>
  /\ runs' = [runs EXCEPT ![r].pc = "done",
                          ![r].log = Append(@, Ev("clearPageIn", 0, TRUE, TRUE))]
  /\ nav' = AfterModules(nav)
  /\ UNCHANGED <<mount, destroy, pageOut, nextCb, scroll, resizeHeight>>
  /\ UNCHANGED domVars
  /\ UNCHANGED subsVars
  /\ UNCHANGED extVars

\* The runs of the registry named that have started and not ended: they
\* wait for promises of the registry, or a continuation of theirs is in the
\* microtask queue.
Awaiting(name) ==
  {r \in RunIds :
     /\ runs[r].pc \in {"await", "cleared", "returned"}
     /\ runs[r].kind \in (IF name = "pageIn" THEN {"init", "in"} ELSE {"out"})}

\* The component bound to an element calls onPageIn(fn) or onPageOut(fn),
\* fn an async function, while a run of that registry is in progress: from a
\* task that runs while runPageIn or runPageOut waits (a timer, an event
\* listener), or from a promise continuation of its own, which the
\* microtask queue runs between two continuations of the run.
RegisterLate(e, name) ==
  /\ Cardinality(lateRegs) < MaxLate
  /\ e \in initialized
  /\ Awaiting(name) # {}
  /\ IF name = "pageIn"
     THEN /\ pageIn' = OnPageIn(Registries, e, TRUE).pageIn
          /\ UNCHANGED pageOut
     ELSE /\ pageOut' = OnPageOut(Registries, e, 0, TRUE).pageOut
          /\ UNCHANGED pageIn
  /\ nextCb' = nextCb + 1
  /\ lateRegs' = lateRegs \cup {nextCb + 1}
  /\ nav' = AfterModules(nav)
  /\ UNCHANGED <<mount, destroy, scroll, resizeHeight, runs>>
  /\ UNCHANGED domVars
  /\ UNCHANGED subsVars
  /\ UNCHANGED <<resizeVars, trackVars, heyVars, editorVars, managerVars,
                 enterVars, navVars, passVars, devVars>>

\* What `await App.pages.transitionOut(...)` and
\* `await App.pages.transitionIn(...)` do: _App has no member pages
\* (app.ts:3 and app.ts:9 are comments), so reading a property of undefined
\* throws a TypeError before anything is called.  The promise of the hook
\* rejects and done() is never called.
HookCall(hook) ==
  /\ NoMicrotask
  /\ Len(hookCalls) < MaxHooks
  /\ hookCalls' = Append(hookCalls,
                         [hook |-> hook, threw |-> "TypeError", done |-> FALSE])
  /\ UNCHANGED <<subsVars, lifeVars, resizeVars, trackVars, heyVars, editorVars,
                 managerVars, enterVars, passVars, lateVars, devVars>>

\* Transition.onLeave({from, trigger, done}), called by the router when a
\* link is clicked and it starts a navigation: no callback is invoked and
\* no registry changes.
OnLeave ==
  /\ nav = "idle"
  /\ HookCall("onLeave")

\* Transition.onEnter({to, trigger, done}): no cycle is created, no timer is
\* started and no callback is invoked.
OnEnter ==
  /\ nav = "enter"
  /\ HookCall("onEnter")

\* The runs of transitionOut that have started and not ended.
InFlight ==
  {r \in RunIds : runs[r].kind = "out" /\ runs[r].pc \in {"await", "cleared", "returned"}}

\* Pages.transitionOut(), up to the await: runPageOut() maps the registry.
\* The method has no flag and no queue: called again while a call of it is
\* waiting (again), it does the same as when the page is at rest.  over
\* keeps the calls that were waiting.
TransitionOut(again) ==
  /\ IF again THEN nav = "leaving" /\ InFlight # {} ELSE nav = "idle"
  /\ NoMicrotask
  /\ Len(runs) < MaxRuns
  /\ \E k \in {0} \cup SyncThrowers(pageOut) :
       /\ runs' = Append(runs,
             [NewRun("out", AfterDispatch(k), Dispatch(pageOut, k, "pageOut"),
                     Pending(pageOut, k)) EXCEPT !.over = InFlight])
       /\ nav' = IF again THEN nav ELSE IF k = 0 THEN "leaving" ELSE "stalled"
  /\ UNCHANGED <<scroll, resizeHeight>>
  /\ UNCHANGED regVars
  /\ UNCHANGED domVars
  /\ UNCHANGED subsVars
  /\ UNCHANGED extVars

\* A promise returned by a pageOut / pageIn callback settles, or
\* Promise.allSettled takes the value of a callback that returned none.
\* The wrapper of a guarded callback whose body was skipped can only
\* fulfil.  Promises of several runs settle in one task or in microtasks
\* that follow one another (the tweens of two runs that end together, the
\* values of plain callbacks): a promise settles also while the join of
\* another run has resolved and the continuation of that run is queued.
Settle(r, cb, ok) ==
  /\ r \in RunIds
  /\ runs[r].pc = "await"
  /\ cb \in runs[r].pend
  /\ ok \/ \E i \in 1..Len(runs[r].log) :
             /\ runs[r].log[i].ev \in {"pageOut", "pageIn"}
             /\ runs[r].log[i].cb = cb
             /\ runs[r].log[i].flag
  /\ runs' = [runs EXCEPT ![r].pend = @ \ {cb},
                          ![r].pc = JoinAfterSettle(@, ok),
                          ![r].rejected = IF ok THEN @ ELSE @ \cup {cb}]
  /\ nav' = IF JoinAfterSettle(runs[r].pc, ok) = "failed" /\ runs[r].kind # "init"
            THEN "stalled" ELSE AfterModules(nav)
  /\ UNCHANGED <<scroll, resizeHeight>>
  /\ UNCHANGED regVars
  /\ UNCHANGED domVars
  /\ UNCHANGED subsVars
  /\ UNCHANGED extVars

\* runPageOut after its join: pageOut.length = 0.
ClearPageOut(r) ==
  /\ r \in RunIds
  /\ runs[r].kind = "out"
  /\ Ready(r)
  /\ pageOut' = <<>>
  /\ runs' = [runs EXCEPT ![r].pc = "cleared",
                          ![r].log = Append(@, Ev("clearPageOut", 0, TRUE, TRUE))]
  /\ UNCHANGED <<mount, destroy, pageIn, nextCb, scroll, resizeHeight, nav>>
  /\ UNCHANGED domVars
  /\ UNCHANGED subsVars
  /\ UNCHANGED extVars

\* transitionOut after its awaits: runDestroy(), Scroll.toTop().
FinishLeave(r) ==
  /\ r \in RunIds
  /\ runs[r].kind = "out"
  /\ runs[r].pc = "cleared"
  /\ \E k \in 0..Len(destroy) :
       /\ destroy' = AfterRunSync(destroy, k)
       /\ scroll' = IF k = 0 THEN 0 ELSE scroll
       /\ runs' = [runs EXCEPT
             ![r].pc = IF k = 0 THEN "returned" ELSE "failed",
             ![r].log = @ \o RunSync(destroy, k, "destroy")
                          \o (IF k = 0
                              THEN <<Ev("clearDestroy", 0, TRUE, TRUE),
                                     Ev("toTop", 0, TRUE, TRUE)>>
                              ELSE <<>>)]
       /\ nav' = IF k = 0 \/ runs[r].over # {} THEN nav ELSE "stalled"
  /\ UNCHANGED <<mount, pageIn, pageOut, nextCb, resizeHeight>>
  /\ UNCHANGED domVars
  /\ UNCHANGED subsVars
  /\ UNCHANGED extVars

\* The promise of transitionOut fulfils: the caller that awaits it goes on,
\* one microtask after the method has returned, and replaces the content.
\* The caller of a call made while another one was waiting waits for the
\* promise and does nothing more.
LeaveReturned(r) ==
  /\ r \in RunIds
  /\ runs[r].kind = "out"
  /\ runs[r].pc = "returned"
  /\ runs' = [runs EXCEPT ![r].pc = "done"]
  /\ nav' = IF nav = "leaving" /\ runs[r].over = {} THEN "swap" ELSE nav
  /\ UNCHANGED <<scroll, resizeHeight>>
  /\ UNCHANGED regVars
  /\ UNCHANGED domVars
  /\ UNCHANGED subsVars
  /\ UNCHANGED extVars

\* The page content is replaced between transitionOut and transitionIn:
\* some elements leave the document, new ones enter it.
SwapContent(removed, added) ==
  /\ nav = "swap"
  /\ NoMicrotask
  /\ removed \subseteq dom
  /\ added \subseteq (Elements \ born)
  /\ dom' = (dom \ removed) \cup added
  /\ born' = born \cup added
  /\ nav' = "enter"
  /\ UNCHANGED <<initialized, invocations, successes, scroll, resizeHeight, runs>>
  /\ UNCHANGED regVars
  /\ UNCHANGED subsVars
  /\ UNCHANGED extVars

\* Pages.transitionIn(), up to the await: createCycles(), Scroll.resize(),
\* Resize.update(), which starts the debounce timer, then runPageIn() maps
\* the registry.  enterLog keeps what Resize and the window held then.
TransitionIn(oc) ==
  /\ nav = "enter"
  /\ NoMicrotask
  /\ Len(runs) < MaxRuns
  /\ LET C == CreateCycles(oc)
     IN  \E k \in {0} \cup SyncThrowers(C.R.pageIn) :
           /\ mount' = C.R.mount
           /\ destroy' = C.R.destroy
           /\ pageIn' = C.R.pageIn
           /\ pageOut' = C.R.pageOut
           /\ nextCb' = C.R.next
           /\ initialized' = C.init
           /\ invocations' = C.inv
           /\ successes' = C.succ
           /\ runs' = Append(runs,
                 NewRun("in", AfterDispatch(k),
                        C.log \o <<Ev("scrollResize", 0, TRUE, TRUE),
                                   Ev("resizeUpdate", 0, TRUE, TRUE)>>
                              \o Dispatch(C.R.pageIn, k, "pageIn"),
                        Pending(C.R.pageIn, k)))
           /\ nav' = IF k = 0 THEN "entering" ELSE "stalled"
           /\ enterLog' = Append(enterLog,
                 [width |-> resizeWidth, height |-> resizeHeight,
                  winWidth |-> winWidth, winHeight |-> winHeight,
                  notified |-> resizeLog,
                  started |-> Len(Dispatch(C.R.pageIn, k, "pageIn"))])
  /\ Update
  /\ UNCHANGED <<dom, born, scroll, resizeHeight>>
  /\ UNCHANGED subsVars
  /\ UNCHANGED <<winWidth, winHeight, resizeWidth, resizeLog>>
  /\ UNCHANGED <<trackVars, heyVars, editorVars, managerVars, navVars, passVars,
                 lateVars, devVars>>

\* runPageIn, called by transitionIn, after its join: pageIn.length = 0.
ClearPageIn(r) ==
  /\ r \in RunIds
  /\ runs[r].kind = "in"
  /\ Ready(r)
  /\ pageIn' = <<>>
  /\ runs' = [runs EXCEPT ![r].pc = "cleared",
                          ![r].log = Append(@, Ev("clearPageIn", 0, TRUE, TRUE))]
  /\ UNCHANGED <<mount, destroy, pageOut, nextCb, scroll, resizeHeight, nav>>
  /\ UNCHANGED domVars
  /\ UNCHANGED subsVars
  /\ UNCHANGED extVars

\* transitionIn after its awaits: runMount().
FinishEnter(r) ==
  /\ r \in RunIds
  /\ runs[r].kind = "in"
  /\ runs[r].pc = "cleared"
  /\ \E k \in 0..Len(mount) :
       /\ mount' = AfterRunSync(mount, k)
       /\ runs' = [runs EXCEPT
             ![r].pc = IF k = 0 THEN "returned" ELSE "failed",
             ![r].log = @ \o RunSync(mount, k, "mount")
                          \o (IF k = 0
                              THEN <<Ev("clearMount", 0, TRUE, TRUE)>>
                              ELSE <<>>)]
       /\ nav' = IF k = 0 THEN nav ELSE "stalled"
  /\ UNCHANGED <<destroy, pageIn, pageOut, nextCb, scroll, resizeHeight>>
  /\ UNCHANGED domVars
  /\ UNCHANGED subsVars
  /\ UNCHANGED extVars

\* The promise of transitionIn fulfils: the caller that awaits it goes on,
\* one microtask after the method has returned; the page is at rest.
EnterReturned(r) ==
  /\ r \in RunIds
  /\ runs[r].kind = "in"
  /\ runs[r].pc = "returned"
  /\ runs' = [runs EXCEPT ![r].pc = "done"]
  /\ nav' = "idle"
  /\ UNCHANGED <<scroll, resizeHeight>>
  /\ UNCHANGED regVars
  /\ UNCHANGED domVars
  /\ UNCHANGED subsVars
  /\ UNCHANGED extVars

\* The user scrolls the page while no transition is running.
ScrollTo(s) ==
  /\ nav = "idle"
  /\ NoMicrotask
  /\ s # scroll
  /\ scroll' = s
  /\ UNCHANGED <<resizeHeight, runs, nav>>
  /\ UNCHANGED regVars
  /\ UNCHANGED domVars
  /\ UNCHANGED subsVars
  /\ UNCHANGED extVars

----------------------------------------------------------------------------
(* createCycles called on a changing document *)

\* A call of createCycles(); the call is kept as a run of kind "scan".
Scan(oc) ==
  /\ nav = "scan"
  /\ Len(runs) < MaxScans
  /\ LET C == CreateCycles(oc)
     IN  /\ mount' = C.R.mount
         /\ destroy' = C.R.destroy
         /\ pageIn' = C.R.pageIn
         /\ pageOut' = C.R.pageOut
         /\ nextCb' = C.R.next
         /\ initialized' = C.init
         /\ invocations' = C.inv
         /\ successes' = C.succ
         /\ runs' = Append(runs, NewRun("scan", "done", C.log, {}))
  /\ UNCHANGED <<dom, born, scroll, resizeHeight, nav>>
  /\ UNCHANGED subsVars
  /\ UNCHANGED extVars

\* clearModuleInitialization(element): delete element._moduleInitialized.
\* The call is kept as a run of kind "clear".
ClearModuleInitialization(e) ==
  /\ nav = "scan"
  /\ Len(runs) < MaxScans
  /\ e \in born
  /\ initialized' = initialized \ {e}
  /\ runs' = Append(runs, NewRun("clear", "done",
                                 <<Ev("clearInit", e, TRUE, TRUE)>>, {}))
  /\ UNCHANGED <<dom, born, invocations, successes, scroll, resizeHeight, nav>>
  /\ UNCHANGED regVars
  /\ UNCHANGED subsVars
  /\ UNCHANGED extVars

\* A new data-module element enters the document.
InsertElement(e) ==
  /\ nav = "scan"
  /\ e \in Elements \ born
  /\ dom' = dom \cup {e}
  /\ born' = born \cup {e}
  /\ UNCHANGED <<initialized, invocations, successes, scroll, resizeHeight, runs, nav>>
  /\ UNCHANGED regVars
  /\ UNCHANGED subsVars
  /\ UNCHANGED extVars

\* An element leaves the document (it keeps its flag).
RemoveElement(e) ==
  /\ nav = "scan"
  /\ e \in dom
  /\ dom' = dom \ {e}
  /\ UNCHANGED <<born, initialized, invocations, successes, scroll, resizeHeight, runs, nav>>
  /\ UNCHANGED regVars
  /\ UNCHANGED subsVars
  /\ UNCHANGED extVars

----------------------------------------------------------------------------
(* Resize under window resizes and the passing of time *)

\* The window is resized to w x h and dispatches a resize event, whose
\* listener is update().
WindowResize(w, h) ==
  /\ NoMicrotask
  /\ <<w, h>> # <<winWidth, winHeight>>
  /\ winWidth' = w
  /\ winHeight' = h
  /\ Update
  /\ UNCHANGED <<resizeWidth, resizeHeight, resizeLog>>
  /\ ResizeFrame

\* update() called directly, as transitionIn does (pages.ts:59).
CallUpdate ==
  /\ nav = "resize"
  /\ Update
  /\ UNCHANGED <<winWidth, winHeight, resizeWidth, resizeHeight, resizeLog>>
  /\ ResizeFrame

\* Time passes, at most until the next timer is due.
Elapse ==
  /\ NoMicrotask
  /\ timers # {}
  /\ NextDue > 0
  /\ LET d == IF NextDue < TimeStep THEN NextDue ELSE TimeStep
     IN  /\ timers' = {[t EXCEPT !.remaining = @ - d] : t \in timers}
         /\ quiet' = IF quiet + d > debounceDelay THEN debounceDelay ELSE quiet + d
  /\ UNCHANGED <<winWidth, winHeight, resizeWidth, resizeHeight, timeoutId,
                 nextTimer, burst, fired, resizeLog>>
  /\ ResizeFrame

\* The callback of a due timer: read the window, notify when a dimension
\* differs from the stored one, forget the timer.
FireTimer(t) ==
  /\ NoMicrotask
  /\ t \in timers
  /\ t.remaining = 0
  /\ timers' = timers \ {t}
  /\ IF DimensionsChanged(winWidth, winHeight)
     THEN /\ resizeWidth' = winWidth
          /\ resizeHeight' = winHeight
          /\ resizeLog' = Append(resizeLog, [width |-> winWidth, height |-> winHeight])
     ELSE UNCHANGED <<resizeWidth, resizeHeight, resizeLog>>
  /\ timeoutId' = 0
  /\ fired' = fired + 1
  /\ UNCHANGED <<winWidth, winHeight, nextTimer, quiet, burst>>
  /\ ResizeFrame

\* Resize after construction, for a window of the stored width and height.
ResizeIdle ==
  /\ winWidth = resizeWidth
  /\ winHeight = resizeHeight
  /\ timeoutId = 0
  /\ timers = {}
  /\ nextTimer = 0
  /\ quiet = debounceDelay
  /\ burst = 0
  /\ fired = 0
  /\ resizeLog = <<>>

----------------------------------------------------------------------------
(* Numbers.  A JavaScript number is modelled as a fraction <<n, d>> in      *)
(* lowest terms with d >= 0; <<1, 0>> and <<-1, 0>> are +Infinity and       *)
(* -Infinity, <<0, 0>> is NaN.                                              *)

Abs(i) == IF i < 0 THEN -i ELSE i

RECURSIVE GCD(_, _)
GCD(a, b) == IF b = 0 THEN a ELSE GCD(b, a % b)

Sign(i) == IF i < 0 THEN -1 ELSE IF i > 0 THEN 1 ELSE 0

Rat(n, d) ==
  IF d = 0 THEN <<Sign(n), 0>>
  ELSE LET g == GCD(Abs(n), Abs(d))
       IN  <<Sign(d) * (n \div g), Abs(d) \div g>>

RatInt(i) == <<i, 1>>
IsNaN(x) == x = <<0, 0>>
\* x + y: two infinities of one sign add up to that infinity, two of
\* opposite signs to NaN.
RatAdd(x, y) == IF IsNaN(x) \/ IsNaN(y) THEN <<0, 0>>
                ELSE IF x[2] = 0 /\ y[2] = 0
                       THEN (IF x[1] = y[1] THEN x ELSE <<0, 0>>)
                ELSE Rat(x[1] * y[2] + y[1] * x[2], x[2] * y[2])
RatNeg(x) == <<-x[1], x[2]>>
RatSub(x, y) == RatAdd(x, RatNeg(y))
RatMul(x, y) == Rat(x[1] * y[1], x[2] * y[2])
RatDiv(x, y) == IF IsNaN(x) \/ IsNaN(y) THEN <<0, 0>>
                ELSE Rat(x[1] * y[2] * (IF y[1] < 0 THEN -1 ELSE 1),
                         x[2] * Abs(y[1]))
\* x < y, false when either is NaN.
RatLt(x, y) ==
  /\ ~IsNaN(x) /\ ~IsNaN(y) /\ x # y
  /\ IF x[2] = 0 /\ y[2] = 0 THEN x[1] < y[1] ELSE x[1] * y[2] <= y[1] * x[2]
RatLe(x, y) == ~IsNaN(x) /\ ~IsNaN(y) /\ (x = y \/ RatLt(x, y))

\* Math.max / Math.min: NaN when an argument is NaN.
MathMax(x, y) == IF IsNaN(x) \/ IsNaN(y) THEN <<0, 0>>
                 ELSE IF RatLt(x, y) THEN y ELSE x
MathMin(x, y) == IF IsNaN(x) \/ IsNaN(y) THEN <<0, 0>>
                 ELSE IF RatLt(y, x) THEN y ELSE x

----------------------------------------------------------------------------
(* Track, src/unnamed/part_004:67-188, on top of Observe and @utils/math   *)

MaxCleanups == 2      \* callbacks registered with onDestroy
MaxTrackEvents == 2   \* notifications delivered to the Tracks
MaxDestroyRuns == 2   \* calls of runDestroy
MaxStarts == 1        \* calls of start() on one Track
MaxTrackResizes == 1  \* resize events of the window in the Track model

\* Window heights and scroll positions of the Track model.
TrackHeights == {800, 600}
TrackScrolls == {-800, -200, 300, 400}

\* The configurations: DEFAULT_CONFIG and the documented patterns, each on
\* an element given by its span in the document.
DEFAULT_CONFIG == [bounds |-> <<RatInt(0), RatInt(1)>>, top |-> "bottom", bottom |-> "top"]
TrackCases ==
  {[el |-> [top |-> 100, bottom |-> 300], config |-> DEFAULT_CONFIG],
   [el |-> [top |-> 100, bottom |-> 300],
    config |-> [bounds |-> <<RatInt(0), RatInt(200)>>, top |-> "bottom", bottom |-> "top"]],
   [el |-> [top |-> 0, bottom |-> 600],
    config |-> [bounds |-> <<Rat(1, 2), RatInt(1)>>, top |-> "top", bottom |-> "top"]],
   [el |-> [top |-> 0, bottom |-> 600],
    config |-> [bounds |-> <<RatInt(0), RatInt(1)>>, top |-> "top", bottom |-> "bottom"]]}

\* clamp(min, max, value) of @utils/math.
clamp(min, max, value) == MathMin(MathMax(value, min), max)

\* The call in #handleScroll: clamp(0, 1, ...).
ClampValue(config, value) == clamp(RatInt(0), RatInt(1), value)

\* map(value, inMin, inMax, outMin, outMax) of @utils/math.
map(value, inMin, inMax, outMin, outMax) ==
  RatAdd(outMin, RatDiv(RatMul(RatSub(value, inMin), RatSub(outMax, outMin)),
                        RatSub(inMax, inMin)))

\* clientRect(element) when Scroll.scroll is scrollPos and Resize.height is
\* wh: the rect moved to document space.
clientRect(el, scrollPos, wh) ==
  [top |-> (el.top - scrollPos) + scrollPos,
   bottom |-> (el.bottom - scrollPos) + scrollPos,
   wh |-> wh]

computeBounds(el, config, scrollPos, wh) ==
  LET bounds == clientRect(el, scrollPos, wh)
      centerOffset == Rat(bounds.wh, 2)
      Offset(point) == IF point = "center" THEN centerOffset
                       ELSE IF point = "bottom" THEN RatInt(bounds.wh)
                       ELSE RatInt(0)
  IN  [top |-> RatSub(RatInt(bounds.top), Offset(config.top)),
       bottom |-> RatSub(RatInt(bounds.bottom), Offset(config.bottom))]

\* entry.isIntersecting: the element and the viewport intersect or touch.
IsIntersecting(el, scrollPos, height) ==
  el.top - scrollPos <= height /\ el.bottom - scrollPos >= 0

\* #handleScroll() when Scroll.scroll is scrollPos.
HandleScroll(tr, scrollPos) ==
  IF ~tr.inView \/ ~tr.init THEN tr
  ELSE [tr EXCEPT !.value = ClampValue(tr.config,
                              map(RatInt(scrollPos), tr.bounds.top, tr.bounds.bottom,
                                  tr.config.bounds[1], tr.config.bounds[2])),
                  !.calls = IF tr.callback THEN @ + 1 ELSE @]

\* #resize(): recompute the bounds, then #handleScroll().
HandleResize(tr, scrollPos, wh) ==
  HandleScroll([tr EXCEPT !.bounds = computeBounds(tr.el, tr.config, scrollPos, wh)],
               scrollPos)

\* new Track(element, config): the Observe constructor with autoStart,
\* #resize(), the two subscriptions (their identities are scrollSym and
\* resizeSym), init = true, #handleScroll().  made counts the runDestroy
\* calls before the Track was made.
NewTrack(el, config, scrollSym, resizeSym, made) ==
  LET fresh == [el |-> el, config |-> config,
                bounds |-> [top |-> RatInt(0), bottom |-> RatInt(0)],
                value |-> RatInt(0), init |-> FALSE, inView |-> FALSE,
                started |-> TRUE, destroyed |-> FALSE, callback |-> TRUE,
                io |-> "none", calls |-> 0, destroys |-> 0, trace |-> <<>>,
                starts |-> 0, restarted |-> FALSE,
                scrollSub |-> scrollSym, resizeSub |-> resizeSym, made |-> made]
      sized == HandleResize(fresh, scroll, resizeHeight)
  IN  HandleScroll([sized EXCEPT !.init = TRUE], scroll)

\* Scroll.notify: the subscribed Tracks' #handleScroll, in array order.
RECURSIVE ScrollPass(_, _, _)
ScrollPass(subs, T, scrollPos) ==
  IF subs = <<>> THEN T
  ELSE ScrollPass(Tail(subs),
                  [T EXCEPT ![Head(subs).fn] = HandleScroll(@, scrollPos)],
                  scrollPos)

\* Resize.notify: the subscribed Tracks' #resize, in array order.
RECURSIVE ResizePass(_, _, _, _)
ResizePass(subs, T, scrollPos, wh) ==
  IF subs = <<>> THEN T
  ELSE ResizePass(Tail(subs),
                  [T EXCEPT ![Head(subs).fn] = HandleResize(@, scrollPos, wh)],
                  scrollPos, wh)

\* this.#scrollSub(): the function returned by Scroll.add.
ScrollSubReleased(subs, tr) == RemoveEntry(subs, tr.scrollSub)

\* Variant of destroy() that keeps the Resize subscription.
ResizeSubKept(subs, tr) == subs

\* this.#resizeSub(): the function returned by Resize.add.
ResizeSubReleased(subs, tr) == RemoveEntry(subs, tr.resizeSub)

\* Observe.destroy(): unregister for good.
ObserveDestroy(tr) ==
  [tr EXCEPT !.started = FALSE, !.destroyed = TRUE, !.inView = FALSE,
             !.trace = Append(@, "Observe.destroy")]

\* Variant of start() that does not look at the destroyed mark.
ObserveStartUnmarked(tr) ==
  IF tr.started
  THEN [tr EXCEPT !.starts = @ + 1]
  ELSE [tr EXCEPT !.started = TRUE, !.io = "none", !.restarted = TRUE,
                  !.starts = @ + 1]

\* Observe.start(): register with the ObserverManager; nothing when the
\* instance is started already or was destroyed.  starts counts the calls
\* of start(), restarted tells that a start() registered the element again.
ObserveStart(tr) ==
  IF tr.destroyed \/ tr.started
  THEN [tr EXCEPT !.starts = @ + 1]
  ELSE [tr EXCEPT !.started = TRUE, !.io = "none", !.restarted = TRUE,
                  !.starts = @ + 1]

\* Observe.stop(): unregister, keeping the callbacks and what was observed
\* last.
ObserveStop(tr) ==
  IF tr.destroyed \/ ~tr.started THEN tr
  ELSE [tr EXCEPT !.started = FALSE]

\* Track.destroy() of Track t.  S carries the Tracks and the two subscriber
\* lists.
TrackDestroy(S, t) ==
  LET tr == S.tracks[t]
      s1 == ScrollSubReleased(S.scrollSubs, tr)
      s2 == ResizeSubReleased(S.resizeSubs, tr)
      released == [tr EXCEPT !.callback = FALSE,
                             !.destroys = @ + 1,
                             !.trace = @ \o <<"scrollSub", "resizeSub">>]
  IN  [tracks |-> [S.tracks EXCEPT ![t] = ObserveDestroy(released)],
       scrollSubs |-> s1, resizeSubs |-> s2]

\* A callback pushed by onDestroy: target is the Track that the callback
\* destroys (onTrack), 0 for a callback of the component itself.
Cleanup(id, target) ==
  [id |-> id, owner |-> 0, guard |-> 0, async |-> FALSE, reg |-> scroll,
   target |-> target]

\* destroy.forEach((fn) => fn()) over the first n callbacks.
RECURSIVE DestroyPass(_, _, _, _)
DestroyPass(reg, i, n, S) ==
  IF i > n THEN S
  ELSE DestroyPass(reg, i + 1, n,
                   IF reg[i].target = 0 THEN S ELSE TrackDestroy(S, reg[i].target))

TrackValues(T) == [t \in 1..Len(T) |-> T[t].value]

\* One notification as the log keeps it: the values of the Tracks after it,
\* which of them had their callback called by it, which were destroyed
\* before it.
Notification(ev, scrollPos, wh, T, after) ==
  [ev |-> ev, scroll |-> scrollPos, wh |-> wh, values |-> TrackValues(after),
   called |-> {t \in 1..Len(T) : after[t].calls # T[t].calls},
   destroyed |-> {t \in 1..Len(T) : T[t].destroyed}]

TrackFrame ==
  UNCHANGED <<subsVars, mount, pageIn, pageOut, domVars, nav, winWidth,
              resizeWidth, timeoutId, timers, nextTimer, quiet, burst, fired,
              resizeLog, heyVars, editorVars, svcVars>>

\* onTrack(element, config): new Track, then onDestroy(() => track.destroy()).
\* Components are set up before the page is scrolled, resized or left; the
\* Track model follows one Track.
OnTrack(el, config) ==
  /\ nav \in {"track", "cleanup"}
  /\ trackLog = <<>>
  /\ runs = <<>>
  /\ nextCb < MaxCleanups
  /\ nav = "track" => tracks = <<>>
  /\ LET t == Len(tracks) + 1
         tr == NewTrack(el, config, symCount + 1, symCount + 2, Len(runs))
     IN  /\ tracks' = Append(tracks, tr)
         /\ scrollSubs' = AddEntry(scrollSubs,
                             [fn |-> t, priority |-> 0, id |-> symCount + 1])
         /\ resizeSubs' = AddEntry(resizeSubs,
                             [fn |-> t, priority |-> 0, id |-> symCount + 2])
         /\ destroy' = OnDestroyEntry(destroy, Cleanup(nextCb + 1, t))
  /\ symCount' = symCount + 2
  /\ nextCb' = nextCb + 1
  /\ UNCHANGED <<scroll, resizeHeight, winHeight, runs, trackLog>>
  /\ TrackFrame

\* onDestroy(fn) with a callback of the component itself.
OnDestroyPlain ==
  /\ nav = "cleanup"
  /\ trackLog = <<>>
  /\ runs = <<>>
  /\ nextCb < MaxCleanups
  /\ destroy' = OnDestroyEntry(destroy, Cleanup(nextCb + 1, 0))
  /\ nextCb' = nextCb + 1
  /\ UNCHANGED <<scroll, resizeHeight, winHeight, runs>>
  /\ UNCHANGED trackVars
  /\ TrackFrame

\* The page scrolls to s and Scroll notifies.
ScrollNotify(s) ==
  /\ nav = "track"
  /\ Len(trackLog) < MaxTrackEvents
  /\ s # scroll
  /\ scroll' = s
  /\ tracks' = ScrollPass(scrollSubs, tracks, s)
  /\ trackLog' = Append(trackLog,
                        Notification("scroll", s, resizeHeight, tracks, tracks'))
  /\ UNCHANGED <<scrollSubs, resizeSubs, symCount, destroy, nextCb, resizeHeight,
                 winHeight, runs>>
  /\ TrackFrame

\* The window gets the height h and dispatches a resize event: update()
\* starts the debounce timer and returns.  Until the timer fires Resize
\* holds the former height.
TrackWindowResize(h) ==
  /\ nav = "track"
  /\ nextTimer < MaxTrackResizes
  /\ h # winHeight
  /\ winHeight' = h
  /\ Update
  /\ UNCHANGED <<tracks, scrollSubs, resizeSubs, symCount, trackLog, destroy,
                 nextCb, scroll, resizeHeight, runs>>
  /\ UNCHANGED <<subsVars, mount, pageIn, pageOut, domVars, nav, winWidth,
                 resizeWidth, resizeLog, heyVars, editorVars, svcVars>>

\* The debounce delay passes and the timer fires: when the height differs
\* from the one Resize holds, Resize stores it and notifies.
ResizeNotify ==
  /\ nav = "track"
  /\ timers # {}
  /\ timers' = {}
  /\ timeoutId' = 0
  /\ quiet' = debounceDelay
  /\ fired' = fired + 1
  /\ IF DimensionsChanged(winWidth, winHeight)
     THEN /\ Len(trackLog) < MaxTrackEvents
          /\ resizeHeight' = winHeight
          /\ resizeLog' = Append(resizeLog, [width |-> winWidth, height |-> winHeight])
          /\ tracks' = ResizePass(resizeSubs, tracks, scroll, winHeight)
          /\ trackLog' = Append(trackLog,
                Notification("resize", scroll, winHeight, tracks, tracks'))
     ELSE UNCHANGED <<resizeHeight, resizeLog, tracks, trackLog>>
  /\ UNCHANGED <<scrollSubs, resizeSubs, symCount, destroy, nextCb, scroll,
                 winHeight, runs>>
  /\ UNCHANGED <<subsVars, mount, pageIn, pageOut, domVars, nav, winWidth,
                 resizeWidth, nextTimer, burst, heyVars, editorVars, svcVars>>

\* The native intersection observer delivers an entry for Track t: Observe
\* stores inView and calls isIn / isOut.
Intersect(t) ==
  /\ nav = "track"
  /\ t \in 1..Len(tracks)
  /\ tracks[t].started
  /\ LET isIn == IsIntersecting(tracks[t].el, scroll, winHeight)
         seen == [tracks[t] EXCEPT !.io = IF isIn THEN "in" ELSE "out",
                                   !.inView = isIn]
     IN  /\ tracks[t].io # seen.io
         /\ tracks' = [tracks EXCEPT ![t] = IF isIn THEN HandleScroll(seen, scroll)
                                            ELSE seen]
  /\ UNCHANGED <<scrollSubs, resizeSubs, symCount, trackLog, destroy, nextCb,
                 scroll, resizeHeight, winHeight, runs>>
  /\ TrackFrame

\* track.destroy() called by the component that holds Track t.
DestroyTrack(t) ==
  /\ nav = "track"
  /\ t \in 1..Len(tracks)
  /\ ~tracks[t].destroyed
  /\ LET S == TrackDestroy([tracks |-> tracks, scrollSubs |-> scrollSubs,
                            resizeSubs |-> resizeSubs], t)
     IN  /\ tracks' = S.tracks
         /\ scrollSubs' = S.scrollSubs
         /\ resizeSubs' = S.resizeSubs
  /\ UNCHANGED <<symCount, trackLog, destroy, nextCb, scroll, resizeHeight,
                 winHeight, runs>>
  /\ TrackFrame

\* track.start() called by the component that holds Track t.
StartTrack(t) ==
  /\ nav = "track"
  /\ t \in 1..Len(tracks)
  /\ tracks[t].starts < MaxStarts
  /\ tracks' = [tracks EXCEPT ![t] = ObserveStart(@)]
  /\ UNCHANGED <<scrollSubs, resizeSubs, symCount, trackLog, destroy, nextCb,
                 scroll, resizeHeight, winHeight, runs>>
  /\ TrackFrame

\* track.stop() called by the component that holds Track t.
StopTrack(t) ==
  /\ nav = "track"
  /\ t \in 1..Len(tracks)
  /\ tracks' = [tracks EXCEPT ![t] = ObserveStop(@)]
  /\ UNCHANGED <<scrollSubs, resizeSubs, symCount, trackLog, destroy, nextCb,
                 scroll, resizeHeight, winHeight, runs>>
  /\ TrackFrame

\* runDestroy(); k is the index of the first callback that throws (only a
\* callback of a component can), 0 when none does.
RunDestroy(k) ==
  /\ nav = "cleanup"
  /\ Len(runs) < MaxDestroyRuns
  /\ k \in {0} \cup {i \in 1..Len(destroy) : destroy[i].target = 0}
  /\ LET S == DestroyPass(destroy, 1, IF k = 0 THEN Len(destroy) ELSE k - 1,
                          [tracks |-> tracks, scrollSubs |-> scrollSubs,
                           resizeSubs |-> resizeSubs])
     IN  /\ tracks' = S.tracks
         /\ scrollSubs' = S.scrollSubs
         /\ resizeSubs' = S.resizeSubs
  /\ destroy' = AfterRunSync(destroy, k)
  /\ runs' = Append(runs, NewRun("destroy", IF k = 0 THEN "done" ELSE "failed",
                                 RunSync(destroy, k, "destroy"), {}))
  /\ UNCHANGED <<symCount, trackLog, nextCb, scroll, resizeHeight, winHeight>>
  /\ TrackFrame

TrackIdle ==
  /\ tracks = <<>>
  /\ scrollSubs = <<>>
  /\ resizeSubs = <<>>
  /\ symCount = 0
  /\ trackLog = <<>>

-----------------------------------------------------------------------------
(* hey: SimpleEmitter, State and the exported proxy, src/src/lib/hey.ts *)

MaxRegs == 2       \* calls of on() and once()
MaxValue == 2      \* numbers 1..MaxValue are assigned

\* Event and property names.
Names == {"user", "profile", "name", "toString"}

\* The keys that the object literal {} of this.events inherits from
\* Object.prototype: events[key] is truthy for them before any on() and
\* holds no array.
Inherited ==
  {"constructor", "toString", "toLocaleString", "valueOf", "hasOwnProperty",
   "isPrototypeOf", "propertyIsEnumerable", "__proto__", "__defineGetter__",
   "__defineSetter__", "__lookupGetter__", "__lookupSetter__"}

\* Values: undefined, numbers, and objects with one property.  proxied
\* tells whether the object is reached through a Proxy made by createProxy.
Undefined == [type |-> "undefined"]
Num(n) == [type |-> "number", n |-> n]
Obj(proxied, key, val) == [type |-> "object", proxied |-> proxied, key |-> key, val |-> val]

\* The values an application assigns: numbers, {name: 1} and
\* {profile: {name: 1}}.
Numbers == {Num(n) : n \in 1..MaxValue}
Profile == Obj(FALSE, "name", Num(1))
User == Obj(FALSE, "profile", Profile)
HeyValues == Numbers \cup {Profile, User}

\* The handler functions of the application.  a only records the call,
\* again assigns hey[event] = data + 1 while data is a number below
\* MaxValue, thrower throws.
Handlers == {"a", "again", "thrower"}

\* The registrations and the assignments an application makes: <<event,
\* handler>> and <<property, value>>.
OnCases ==
  ({"user"} \X Handlers) \cup
  {<<"name", "a">>, <<"profile", "a">>, <<"toString", "a">>}
OnceCases == {"user"} \X Handlers
AssignCases ==
  ({"user"} \X HeyValues) \cup {<<"name", Num(1)>>, <<"toString", Num(1)>>}

\* on(event, handler): events[event] = [] when events[event] is falsy, then
\* events[event].push(handler).  Under an inherited key events[event] is
\* truthy and has no push: the call throws a TypeError and stores nothing.
\* The result is the registry and whether the call threw.
On(E, event, fn) ==
  IF event \in Inherited THEN [events |-> E, threw |-> TRUE]
  ELSE [events |-> [E EXCEPT ![event] = Append(@, fn)], threw |-> FALSE]

\* off(event, handler): return when events[event] is falsy, else
\* events[event] = events[event].filter((h) => h !== handler), a TypeError
\* under an inherited key.
Off(E, event, ref) ==
  IF event \in Inherited THEN [events |-> E, threw |-> TRUE]
  ELSE [events |-> [E EXCEPT ![event] = SelectSeq(@, LAMBDA fn : fn.ref # ref)],
        threw |-> FALSE]

\* The machine after a call of on or off that gave R.
AfterCall(M, R) == [M EXCEPT !.events = R.events, !.threw = R.threw]

\* createProxy(obj): a Proxy around obj itself; the objects inside obj are
\* left as they are.
createProxy(obj) == [obj EXCEPT !.proxied = TRUE]

RECURSIVE Emit(_, _, _, _)
RECURSIVE RunHandlers(_, _, _, _, _, _)
RECURSIVE CallHandler(_, _, _, _, _)
RECURSIVE ProxySet(_, _, _)

\* The set trap of State.proxy, which proxyHandler.set delegates to: wrap
\* an object value, emit, then Reflect.set.  M is the emitter and the state
\* together with the record of what has been done.
ProxySet(M, property, value) ==
  LET v == IF value.type = "object" THEN createProxy(value) ELSE value
      asg == Len(M.asgs) + 1
      begun == [M EXCEPT !.asgs = Append(@, [property |-> property, value |-> v,
                                             before |-> M.events[property],
                                             seen |-> M.state[property],
                                             returned |-> FALSE])]
      emitted == Emit(begun, property, v, asg)
  IN  IF emitted.threw THEN emitted
      ELSE [emitted EXCEPT !.state[property] = v, !.asgs[asg].returned = TRUE]

\* The names that are `in State`; the operator follows the prototype chain:
\* the own keys of the class (its static members and the name, length and
\* prototype of every class), and the keys inherited from
\* Function.prototype and Object.prototype.
StateKeys ==
  {"emitter", "state", "createProxy", "proxy", "on", "once", "off",
   "name", "length", "prototype"}
    \cup
  {"apply", "bind", "call", "toString", "constructor", "caller", "arguments",
   "hasOwnProperty", "isPrototypeOf", "propertyIsEnumerable", "toLocaleString",
   "valueOf", "__proto__", "__defineGetter__", "__defineSetter__",
   "__lookupGetter__", "__lookupSetter__"}

\* Those of them that hold a function.  emitter, state, proxy, name, length
\* and prototype hold none, and reading caller or arguments of a class
\* throws a TypeError.
StateFunctions ==
  StateKeys \ {"emitter", "state", "proxy", "name", "length", "prototype",
               "caller", "arguments"}

\* The get trap of hey: a property that is in State yields
\* State[property].bind(State), which throws a TypeError when State[property]
\* cannot be read or is not a function; any other property is read from the
\* state, undefined when the state has no such key.
ProxyGet(M, property) ==
  IF property \in StateKeys
    THEN (IF property \in StateFunctions THEN [type |-> "function"]
          ELSE [type |-> "TypeError"])
    ELSE IF property \in DOMAIN M.state THEN M.state[property]
    ELSE Undefined

\* A call of a registered function.  A function registered by once calls
\* the handler and then off(event, onceHandler).  read is what hey[event]
\* yields when the function is called.
CallHandler(M, fn, event, data, asg) ==
  LET called == [M EXCEPT !.calls = Append(@, [ref |-> fn.ref, h |-> fn.h,
                                               event |-> event, data |-> data,
                                               asg |-> asg,
                                               read |-> ProxyGet(M, event)])]
      ran == IF fn.h = "thrower" THEN [called EXCEPT !.threw = TRUE]
             ELSE IF fn.h = "again" /\ data.type = "number" /\ data.n < MaxValue
                  THEN ProxySet(called, event, Num(data.n + 1))
             ELSE called
  IN  IF ran.threw THEN ran
      ELSE IF fn.once THEN AfterCall(ran, Off(ran.events, event, fn.ref))
      ELSE ran

\* forEach over the array that events[event] was when emit began.
RunHandlers(M, fns, i, event, data, asg) ==
  IF i > Len(fns) \/ M.threw THEN M
  ELSE RunHandlers(CallHandler(M, fns[i], event, data, asg), fns, i + 1,
                   event, data, asg)

\* emit(event, data): return when events[event] is falsy, else
\* events[event].forEach(...), a TypeError under an inherited key.
Emit(M, event, data, asg) ==
  IF event \in Inherited THEN [M EXCEPT !.threw = TRUE]
  ELSE IF M.events[event] = <<>> THEN M
  ELSE RunHandlers(M, M.events[event], 1, event, data, asg)

\* The set trap of the Proxy made by createProxy, or a plain write when obj
\* is not behind a Proxy: obj[obj.key] = value.
WriteProperty(M, obj, value) ==
  IF obj.proxied THEN Emit(M, obj.key, value, 0) ELSE M

\* Reflect.set on the object that hey[property] was when the write began:
\* the state shows the write if it still holds that object.
Written(M, property, obj, updated) ==
  IF M.threw \/ M.state[property] # obj THEN M.state
  ELSE [M.state EXCEPT ![property] = updated]

Machine == [events |-> events, state |-> heyState, asgs |-> <<>>, calls |-> <<>>,
            threw |-> FALSE]

HeyOp(op, property, value, ref, M) ==
  [op |-> op, property |-> property, value |-> value, ref |-> ref,
   before |-> events, asgs |-> M.asgs, calls |-> M.calls, threw |-> M.threw]

HeyFrame ==
  UNCHANGED <<subsVars, regVars, domVars, scroll, resizeHeight, runs, nav,
              resizeVars, trackVars, editorVars, svcVars>>

\* hey.on(event, handler).
HeyOn(event, h) ==
  /\ nav = "hey"
  /\ regCount < MaxRegs
  /\ regCount' = regCount + 1
  /\ LET M == AfterCall(Machine, On(events, event, [ref |-> <<"handler", h>>,
                                                     h |-> h, once |-> FALSE]))
     IN  /\ events' = M.events
         /\ heyOp' = HeyOp("on", event, Undefined, <<"handler", h>>, M)
  /\ UNCHANGED heyState
  /\ HeyFrame

\* hey.once(event, handler): on(event, onceHandler) with a new closure.
HeyOnce(event, h) ==
  /\ nav = "hey"
  /\ regCount < MaxRegs
  /\ regCount' = regCount + 1
  /\ LET ref == <<"onceHandler", regCount + 1>>
         M == AfterCall(Machine, On(events, event, [ref |-> ref, h |-> h,
                                                     once |-> TRUE]))
     IN  /\ events' = M.events
         /\ heyOp' = HeyOp("once", event, Undefined, ref, M)
  /\ UNCHANGED heyState
  /\ HeyFrame

\* hey.off(event, handler).
HeyOff(event, h) ==
  /\ nav = "hey"
  /\ LET M == AfterCall(Machine, Off(events, event, <<"handler", h>>))
     IN  /\ events' = M.events
         /\ heyOp' = HeyOp("off", event, Undefined, <<"handler", h>>, M)
  /\ UNCHANGED <<heyState, regCount>>
  /\ HeyFrame

\* hey[property] = value.
HeyAssign(property, value) ==
  /\ nav = "hey"
  /\ LET M == ProxySet(Machine, property, value)
     IN  /\ events' = M.events
         /\ heyState' = M.state
         /\ heyOp' = HeyOp("set", property, value, <<>>, M)
  /\ UNCHANGED regCount
  /\ HeyFrame

\* hey[property][key] = value, where hey[property] is an object and key its
\* property: hey.user.profile = value.
HeyWrite(property, value) ==
  /\ nav = "hey"
  /\ heyState[property].type = "object"
  /\ LET M == WriteProperty(Machine, heyState[property], value)
     IN  /\ events' = M.events
         /\ heyState' = Written(M, property, heyState[property],
                                [heyState[property] EXCEPT !.val = value])
         /\ heyOp' = HeyOp("write", heyState[property].key, value, <<>>, M)
  /\ UNCHANGED regCount
  /\ HeyFrame

\* hey[property][key][inner] = value, where hey[property][key] is an object
\* and inner its property: hey.user.profile.name = value.
HeyWriteDeep(property, value) ==
  /\ nav = "hey"
  /\ heyState[property].type = "object"
  /\ heyState[property].val.type = "object"
  /\ LET M == WriteProperty(Machine, heyState[property].val, value)
     IN  /\ events' = M.events
         /\ heyState' = Written(M, property, heyState[property],
                                [heyState[property] EXCEPT !.val.val = value])
         /\ heyOp' = HeyOp("deep", heyState[property].val.key, value, <<>>, M)
  /\ UNCHANGED regCount
  /\ HeyFrame

HeyIdle ==
  /\ events = [e \in Names |-> <<>>]
  /\ heyState = [p \in Names |-> Undefined]
  /\ regCount = 0
  /\ heyOp = [op |-> "none", property |-> "", value |-> Undefined, ref |-> <<>>,
              before |-> [e \in Names |-> <<>>], asgs |-> <<>>, calls |-> <<>>,
              threw |-> FALSE]

-----------------------------------------------------------------------------
(* handleEditor, src/src/webflow/detect-editor.ts *)

MaxEditorCalls == 2   \* calls of handleEditor
MaxMutations == 3     \* changes of body's child list

EditorFrame ==
  UNCHANGED <<subsVars, regVars, domVars, scroll, resizeHeight, runs, nav,
              resizeVars, trackVars, heyVars, svcVars>>

\* handleEditor(onEditorView): a new MutationObserver on body's child list,
\* then the callback, if there is one, is called with the current state.
\* callback is 0 for null.  removed remembers that handleEditor(null) was
\* called after the observer was made.
HandleEditor(withCallback) ==
  /\ nav = "editor"
  /\ Len(observers) < MaxEditorCalls
  /\ LET o == Len(observers) + 1
         earlier == IF withCallback THEN observers
                    ELSE [i \in 1..Len(observers) |->
                            [observers[i] EXCEPT !.removed = TRUE]]
     IN  /\ observers' = Append(earlier, [callback |-> IF withCallback THEN o ELSE 0,
                                          previousState |-> editorState,
                                          records |-> 0, removed |-> FALSE])
         /\ editorLog' = IF withCallback
                         THEN Append(editorLog, [observer |-> o, value |-> editorState,
                                                 immediate |-> TRUE, removed |-> FALSE])
                         ELSE editorLog
  /\ UNCHANGED <<editorState, mutations>>
  /\ EditorFrame

\* A child of body is added or removed; isEditor tells whether body's first
\* child is the editor node afterwards.  Every observer gets a record.
MutateBody(isEditor) ==
  /\ nav = "editor"
  /\ mutations < MaxMutations
  /\ mutations' = mutations + 1
  /\ editorState' = isEditor
  /\ observers' = [i \in 1..Len(observers) |->
                     [observers[i] EXCEPT !.records = @ + 1]]
  /\ UNCHANGED editorLog
  /\ EditorFrame

\* The MutationObserver callback of observer o with its queued records:
\* the first record finds the state changed or not, the others find it
\* equal to previousState.
DeliverRecords(o) ==
  /\ nav = "editor"
  /\ o \in 1..Len(observers)
  /\ observers[o].records > 0
  /\ LET ob == observers[o]
         changed == editorState # ob.previousState
     IN  /\ observers' = [observers EXCEPT ![o].records = 0,
                                           ![o].previousState = editorState]
         /\ editorLog' = IF changed /\ ob.callback # 0
                         THEN Append(editorLog, [observer |-> o, value |-> editorState,
                                                 immediate |-> FALSE,
                                                 removed |-> ob.removed])
                         ELSE editorLog
  /\ UNCHANGED <<editorState, mutations>>
  /\ EditorFrame

EditorIdle ==
  /\ editorState = FALSE
  /\ observers = <<>>
  /\ mutations = 0
  /\ editorLog = <<>>

-----------------------------------------------------------------------------
(* notify() with a callback that calls add or remove on the Subscribable *)

MaxPasses == 1   \* notify passes with a callback that calls add or remove

\* What the acting callback does: add(fn, priority) or remove(id).
Behaviours ==
  {[op |-> "add", priority |-> p, id |-> 0] : p \in Priorities}
    \cup {[op |-> "remove", priority |-> 0, id |-> i] : i \in 1..MaxSubs}

\* The call made by the callback.  P carries the array that forEach walks,
\* this.#subscribers (subs), whether the two are still the same array
\* (alias), the identities made and the calls so far.  add() changes the
\* array in place; remove() stores a new array, made by filter.
ApplyBehaviour(P, b) ==
  IF b.op = "add"
  THEN LET added == AddEntry(P.subs, [fn |-> 1, priority |-> b.priority,
                                      id |-> P.nextSym + 1])
       IN  [P EXCEPT !.subs = added,
                     !.array = IF P.alias THEN added ELSE @,
                     !.nextSym = @ + 1]
  ELSE [P EXCEPT !.subs = RemoveEntry(@, b.id), !.alias = FALSE]

\* this.#subscribers.forEach((f) => f.fn(data)): the indices below the
\* length read when forEach began, each entry read when its index is
\* reached.  The callback whose call is number at of the pass calls b.
RECURSIVE ForEach(_, _, _, _, _)
ForEach(P, k, len, at, b) ==
  IF k > len THEN P
  ELSE LET called == [P EXCEPT !.calls = Append(@, P.array[k].id)]
       IN  ForEach(IF Len(called.calls) = at THEN ApplyBehaviour(called, b)
                   ELSE called,
                   k + 1, len, at, b)

\* notify(data) during which the callback of call number at calls b.
NotifyPass(at, b) ==
  /\ nav = "pass"
  /\ Len(passLog) < MaxPasses
  /\ Len(subscribers) >= 1
  /\ at \in 1..Len(subscribers)
  /\ b.op = "add" => nextSym < MaxSubs
  /\ LET P == ForEach([array |-> subscribers, subs |-> subscribers, alias |-> TRUE,
                       nextSym |-> nextSym, calls |-> <<>>],
                      1, Len(subscribers), at, b)
     IN  /\ subscribers' = P.subs
         /\ nextSym' = P.nextSym
         /\ passLog' = Append(passLog, [before |-> subscribers, at |-> at,
                                        behaviour |-> b, calls |-> P.calls])
  /\ UNCHANGED <<notified, notifyCount>>
  /\ UNCHANGED lifeVars
  /\ UNCHANGED <<resizeVars, trackVars, heyVars, editorVars, managerVars,
                 enterVars, navVars, lateVars, devVars>>

-----------------------------------------------------------------------------
(* ObserverManager: elements grouped by intersection observer configuration *)

MaxObservers == 3   \* native intersection observers ever created

\* The elements handed to the manager and the configurations of their
\* Observe instances; threshold is in tenths.
ManagerElems == {"e1", "e2", "e3"}
ManagerConfigs ==
  {[root |-> "viewport", rootMargin |-> "0px", threshold |-> 1, once |-> FALSE],
   [root |-> "viewport", rootMargin |-> "0px", threshold |-> 1, once |-> TRUE],
   [root |-> "viewport", rootMargin |-> "0px", threshold |-> 5, once |-> FALSE]}

\* The group key: the normalized (root, rootMargin, threshold) of a
\* configuration.
GroupKey(config) == <<config.root, config.rootMargin, config.threshold>>

\* The groups that hold an entry for the element.
GroupsOf(G, element) == {k \in DOMAIN G : element \in DOMAIN G[k].entries}

\* addElement(element, config, callbacks): the group of the key gets the
\* element and its callbacks, after its native observer was created on
\* first use; no other group is touched.  M carries the groups and the
\* native observers; the callbacks are named by the configuration of their
\* Observe.
addElement(M, element, config) ==
  LET key == GroupKey(config)
      first == key \notin DOMAIN M.groups
      N == IF first THEN Append(M.natives, [key |-> key, live |-> TRUE])
           ELSE M.natives
      group == IF first THEN [observer |-> Len(N), entries |-> <<>>]
               ELSE M.groups[key]
      entries == [e \in DOMAIN group.entries \cup {element} |->
                    IF e = element THEN config ELSE group.entries[e]]
  IN  [groups |-> [k \in DOMAIN M.groups \cup {key} |->
                     IF k = key THEN [group EXCEPT !.entries = entries]
                     ELSE M.groups[k]],
       natives |-> N]

\* removeElement(element): remove the element's callback; dispose the
\* native observer of a group that becomes empty.
removeElement(M, element) ==
  LET emptied == {k \in GroupsOf(M.groups, element) :
                    DOMAIN M.groups[k].entries = {element}}
      kept == DOMAIN M.groups \ emptied
  IN  [groups |-> [k \in kept |->
                     [M.groups[k] EXCEPT !.entries =
                        [e \in DOMAIN M.groups[k].entries \ {element} |->
                           M.groups[k].entries[e]]]],
       natives |-> [i \in 1..Len(M.natives) |->
                      IF \E k \in emptied : M.groups[k].observer = i
                      THEN [M.natives[i] EXCEPT !.live = FALSE]
                      ELSE M.natives[i]]]

ManagerFrame ==
  UNCHANGED <<subsVars, lifeVars, resizeVars, trackVars, heyVars, editorVars,
              enterVars, navVars, passVars, lateVars, devVars>>

\* An Observe registers its element: manager.addElement(element, config,
\* callbacks).  Several Observe instances may hold one element, under the
\* same configuration or under different ones (onView and onTrack on the
\* element of a module).
ManagerAdd(element, config) ==
  /\ nav = "manager"
  /\ GroupKey(config) \notin DOMAIN groups => Len(natives) < MaxObservers
  /\ LET M == addElement([groups |-> groups, natives |-> natives], element, config)
     IN  /\ groups' = M.groups
         /\ natives' = M.natives
  /\ tracked' = tracked \cup {element}
  /\ ManagerFrame

\* An Observe unregisters its element: manager.removeElement(element).
ManagerRemove(element) ==
  /\ nav = "manager"
  /\ LET M == removeElement([groups |-> groups, natives |-> natives], element)
     IN  /\ groups' = M.groups
         /\ natives' = M.natives
  /\ tracked' = tracked \ {element}
  /\ ManagerFrame

ManagerIdle ==
  /\ groups = <<>>
  /\ natives = <<>>
  /\ tracked = {}

EnterIdle == enterLog = <<>>

NavIdle == hookCalls = <<>>

PassIdle == passLog = <<>>

LateIdle == lateRegs = {}

----------------------------------------------------------------------------
(* The dev server (src/bin/dev.ts): rebuildFiles, the file watcher and the *)
(* live-reload websockets.  A call of rebuildFiles is a record whose pc is  *)
(* the await it is suspended at: "js" (Bun.build of the scripts), "css"     *)
(* (Bun.build of the styles), "write" (the loop that appends the reload     *)
(* code to the written scripts), then "done" or "failed"; js tells whether  *)
(* the scripts built hold a file to append to.                              *)

Clients == 1..MaxClients

RebuildIds == 1..Len(rebuilds)

DevFrame ==
  UNCHANGED <<subsVars, lifeVars, resizeVars, trackVars, heyVars, editorVars,
              managerVars, enterVars, navVars, passVars, lateVars>>

\* rebuildFiles() up to its first await.
StartRebuild == rebuilds' = Append(rebuilds, [pc |-> "js", js |-> FALSE])

\* The watch callback for a change of a file under src.
FileChange ==
  /\ nav = "dev"
  /\ serving
  /\ Len(rebuilds) < MaxRebuilds
  /\ StartRebuild
  /\ UNCHANGED <<currentBuildResult, clients, reloads, serving>>
  /\ DevFrame

\* The catch block of rebuildFiles: the error is thrown again when there is
\* no build yet.  The watch callback catches it; the initial call has no
\* handler, and the runtime may end the process on the unhandled rejection.
BuildFailed(r) ==
  /\ rebuilds' = [rebuilds EXCEPT ![r].pc = "failed"]
  /\ IF currentBuildResult = 0 /\ r = 1
        THEN serving' \in BOOLEAN
        ELSE serving' = serving
  /\ UNCHANGED <<currentBuildResult, clients, reloads>>

\* The end of the try block: currentBuildResult = {outputs}, then
\* clients.forEach((client) => client.send("reload")).
BuildSucceeded(r) ==
  /\ rebuilds' = [rebuilds EXCEPT ![r].pc = "done"]
  /\ currentBuildResult' = r
  /\ reloads' = reloads \cup {<<c, r>> : c \in clients}
  /\ UNCHANGED <<clients, serving>>

\* One of the awaited Bun.build calls settles.  js tells whether
\* result.outputs of the first build holds a path that ends with ".js".
\* After the second build the loop over result.outputs reaches an await
\* only for such a path; without one the function goes on to the end of
\* the try block in the same step.
BuildStep(r, ok, js) ==
  /\ nav = "dev"
  /\ serving
  /\ r \in RebuildIds
  /\ rebuilds[r].pc \in {"js", "css"}
  /\ rebuilds[r].pc = "css" => js = rebuilds[r].js
  /\ IF ~ok THEN BuildFailed(r)
     ELSE IF rebuilds[r].pc = "js"
        THEN /\ rebuilds' = [rebuilds EXCEPT ![r].pc = "css", ![r].js = js]
             /\ UNCHANGED <<currentBuildResult, clients, reloads, serving>>
     ELSE IF js
        THEN /\ rebuilds' = [rebuilds EXCEPT ![r].pc = "write"]
             /\ UNCHANGED <<currentBuildResult, clients, reloads, serving>>
     ELSE BuildSucceeded(r)
  /\ DevFrame

\* The loop over result.outputs ends, or one of its awaits rejects.
WriteOutputs(r, ok) ==
  /\ nav = "dev"
  /\ serving
  /\ r \in RebuildIds
  /\ rebuilds[r].pc = "write"
  /\ IF ok THEN BuildSucceeded(r) ELSE BuildFailed(r)
  /\ DevFrame

\* websocket.open
SocketOpen(c) ==
  /\ nav = "dev"
  /\ serving
  /\ c \notin clients
  /\ clients' = clients \cup {c}
  /\ UNCHANGED <<rebuilds, currentBuildResult, reloads, serving>>
  /\ DevFrame

\* websocket.close
SocketClose(c) ==
  /\ nav = "dev"
  /\ serving
  /\ c \in clients
  /\ clients' = clients \ {c}
  /\ UNCHANGED <<rebuilds, currentBuildResult, reloads, serving>>
  /\ DevFrame

\* The dev server is not started.
DevIdle ==
  /\ rebuilds = <<>>
  /\ currentBuildResult = 0
  /\ clients = {}
  /\ reloads = {}
  /\ serving = FALSE

SvcIdle ==
  /\ ManagerIdle
  /\ EnterIdle
  /\ NavIdle
  /\ PassIdle
  /\ LateIdle
  /\ DevIdle

\* The parts of the page that a specification leaves alone.
ExtIdle ==
  /\ resizeWidth = 1
  /\ ResizeIdle
  /\ TrackIdle
  /\ HeyIdle
  /\ EditorIdle
  /\ SvcIdle

----------------------------------------------------------------------------
(* Specifications *)

SubsIdle ==
  /\ subscribers = <<>>
  /\ nextSym = 0
  /\ notified = <<>>
  /\ notifyCount = 0

PageIdle(state) ==
  /\ mount = <<>>
  /\ destroy = <<>>
  /\ pageIn = <<>>
  /\ pageOut = <<>>
  /\ nextCb = 0
  /\ initialized = {}
  /\ invocations = [e \in Elements |-> 0]
  /\ successes = [e \in Elements |-> 0]
  /\ runs = <<>>
  /\ nav = state

LifeIdle(state) ==
  /\ PageIdle(state)
  /\ resizeHeight = ViewportHeight

\* A Subscribable right after construction.
InitSubs ==
  /\ SubsIdle
  /\ LifeIdle("off")
  /\ ExtIdle
  /\ dom = {}
  /\ born = {}
  /\ scroll = 0

NextSubs ==
  \/ \E fn \in Fns, priority \in Priorities : Add(fn, priority)
  \/ \E id \in 1..MaxSubs : Remove(id)
  \/ Notify

SpecSubs == InitSubs /\ [][NextSubs]_vars

\* The document is parsed and its script is about to be evaluated: some
\* data-module elements in the document, which is at the top, empty
\* registries; neither _App nor _Pages is constructed yet.
InitLife ==
  /\ SubsIdle
  /\ LifeIdle("boot")
  /\ ExtIdle
  /\ dom \in SUBSET Elements
  /\ born = dom
  /\ scroll = 0

\* In SpecLife every binding returns normally; SpecCycles studies the
\* bindings that throw.  The promises started by a constructor fulfil, those
\* started by a transition fulfil or reject.
AllOk == [e \in Elements |-> "ok"]

NextLife ==
  \/ Construct(AllOk)
  \/ \E r \in RunIds : FinishInit(r)
  \/ TransitionOut(FALSE)
  \/ \E r \in RunIds :
        \E cb \in runs[r].pend, ok \in (IF runs[r].kind = "init" THEN {TRUE} ELSE BOOLEAN) :
           Settle(r, cb, ok)
  \/ \E r \in RunIds : ClearPageOut(r)
  \/ \E r \in RunIds : FinishLeave(r)
  \/ \E r \in RunIds : LeaveReturned(r)
  \/ \E removed \in SUBSET dom, added \in SUBSET (Elements \ born) :
        SwapContent(removed, added)
  \/ TransitionIn(AllOk)
  \/ \E r \in RunIds : ClearPageIn(r)
  \/ \E r \in RunIds : FinishEnter(r)
  \/ \E r \in RunIds : EnterReturned(r)
  \/ \E s \in ScrollPositions : ScrollTo(s)

SpecLife == InitLife /\ [][NextLife]_vars

\* A document with some data-module elements, before the first scan.
InitCycles ==
  /\ SubsIdle
  /\ LifeIdle("scan")
  /\ ExtIdle
  /\ dom \in SUBSET Elements
  /\ born = dom
  /\ scroll = 0

NextCycles ==
  \/ \E oc \in [dom \ initialized -> BindOutcomes] : Scan(oc)
  \/ \E e \in born : ClearModuleInitialization(e)
  \/ \E e \in Elements \ born : InsertElement(e)
  \/ \E e \in dom : RemoveElement(e)

SpecCycles == InitCycles /\ [][NextCycles]_vars

\* A window of any size, Resize just constructed.
InitResize ==
  /\ SubsIdle
  /\ LifeIdle("resize")
  /\ dom = {}
  /\ born = {}
  /\ scroll = 0
  /\ winWidth \in WinSizes
  /\ resizeWidth = winWidth
  /\ ResizeIdle
  /\ TrackIdle
  /\ HeyIdle
  /\ EditorIdle
  /\ SvcIdle

NextResize ==
  \/ \E w \in WinSizes, h \in WinSizes : WindowResize(w, h)
  \/ CallUpdate
  \/ Elapse
  \/ \E t \in timers : FireTimer(t)

SpecResize == InitResize /\ [][NextResize]_vars

\* A page with no Track yet, at some scroll position.
TrackPage(state) ==
  /\ SubsIdle
  /\ PageIdle(state)
  /\ dom = {}
  /\ born = {}
  /\ scroll \in TrackScrolls
  /\ resizeHeight = 800
  /\ resizeWidth = 1
  /\ ResizeIdle
  /\ TrackIdle
  /\ HeyIdle
  /\ EditorIdle
  /\ SvcIdle

InitTrack == TrackPage("track")

NextTrack ==
  \/ \E c \in TrackCases : OnTrack(c.el, c.config)
  \/ \E s \in TrackScrolls : ScrollNotify(s)
  \/ \E h \in TrackHeights : TrackWindowResize(h)
  \/ ResizeNotify
  \/ \E t \in 1..Len(tracks) : Intersect(t)
  \/ \E t \in 1..Len(tracks) : DestroyTrack(t)
  \/ \E t \in 1..Len(tracks) : StartTrack(t)
  \/ \E t \in 1..Len(tracks) : StopTrack(t)

SpecTrack == InitTrack /\ [][NextTrack]_vars

\* The components of a page register their cleanups, then the page is left.
InitCleanup == TrackPage("cleanup")

NextCleanup ==
  \/ \E c \in TrackCases : OnTrack(c.el, c.config)
  \/ OnDestroyPlain
  \/ \E k \in 0..Len(destroy) : RunDestroy(k)

SpecCleanup == InitCleanup /\ [][NextCleanup]_vars

\* The module just loaded: no handler registered, nothing stored.
InitHey ==
  /\ SubsIdle
  /\ LifeIdle("hey")
  /\ dom = {}
  /\ born = {}
  /\ scroll = 0
  /\ ExtIdle

NextHey ==
  \/ \E c \in OnCases : HeyOn(c[1], c[2])
  \/ \E c \in OnceCases : HeyOnce(c[1], c[2])
  \/ \E c \in OnCases : HeyOff(c[1], c[2])
  \/ \E c \in AssignCases : HeyAssign(c[1], c[2])
  \/ \E v \in Numbers \cup {Profile} : HeyWrite("user", v)
  \/ \E v \in Numbers : HeyWriteDeep("user", v)

SpecHey == InitHey /\ [][NextHey]_vars

\* A page in or out of the editor, handleEditor not called yet.
InitEditor ==
  /\ SubsIdle
  /\ LifeIdle("editor")
  /\ dom = {}
  /\ born = {}
  /\ scroll = 0
  /\ resizeWidth = 1
  /\ ResizeIdle
  /\ TrackIdle
  /\ HeyIdle
  /\ editorState \in BOOLEAN
  /\ observers = <<>>
  /\ mutations = 0
  /\ editorLog = <<>>
  /\ SvcIdle

NextEditor ==
  \/ \E c \in BOOLEAN : HandleEditor(c)
  \/ \E b \in BOOLEAN : MutateBody(b)
  \/ \E o \in 1..Len(observers) : DeliverRecords(o)

SpecEditor == InitEditor /\ [][NextEditor]_vars

\* A Subscribable right after construction; callbacks are added and
\* removed, then notify() is called.
InitPass ==
  /\ SubsIdle
  /\ LifeIdle("pass")
  /\ ExtIdle
  /\ dom = {}
  /\ born = {}
  /\ scroll = 0

NextPass ==
  \/ \E fn \in Fns, priority \in Priorities : passLog = <<>> /\ Add(fn, priority)
  \/ \E id \in 1..MaxSubs : passLog = <<>> /\ Remove(id)
  \/ \E at \in 1..MaxSubs, b \in Behaviours : NotifyPass(at, b)

SpecPass == InitPass /\ [][NextPass]_vars

\* dev.ts evaluated: no build yet, no websocket, the server listening and
\* the initial rebuildFiles() suspended at its first await.
InitDev ==
  /\ SubsIdle
  /\ LifeIdle("dev")
  /\ resizeWidth = 1
  /\ ResizeIdle
  /\ TrackIdle
  /\ HeyIdle
  /\ EditorIdle
  /\ ManagerIdle
  /\ EnterIdle
  /\ NavIdle
  /\ PassIdle
  /\ LateIdle
  /\ dom = {}
  /\ born = {}
  /\ scroll = 0
  /\ rebuilds = <<[pc |-> "js", js |-> FALSE]>>
  /\ currentBuildResult = 0
  /\ clients = {}
  /\ reloads = {}
  /\ serving = TRUE

NextDev ==
  \/ FileChange
  \/ \E r \in RebuildIds, ok, js \in BOOLEAN : BuildStep(r, ok, js)
  \/ \E r \in RebuildIds, ok \in BOOLEAN : WriteOutputs(r, ok)
  \/ \E c \in Clients : SocketOpen(c)
  \/ \E c \in Clients : SocketClose(c)

SpecDev == InitDev /\ [][NextDev]_vars

\* The document is parsed, at the top, and its script is about to be
\* evaluated: neither _App nor _Pages is constructed yet.  The page holds
\* the elements bound to the module cycle.
InitNav ==
  /\ SubsIdle
  /\ LifeIdle("boot")
  /\ ExtIdle
  /\ dom = {e \in Elements : AttrOf(e) = "cycle"}
  /\ born = dom
  /\ scroll = 0

\* Page load, links clicked at any time, and calls of transitionOut and
\* transitionIn, a transitionOut also while another one is waiting; the
\* promises of the callbacks fulfil.
NextNav ==
  \/ Construct(AllOk)
  \/ \E r \in RunIds : FinishInit(r)
  \/ OnLeave
  \/ OnEnter
  \/ \E again \in BOOLEAN : TransitionOut(again)
  \/ \E r \in RunIds : \E cb \in runs[r].pend : Settle(r, cb, TRUE)
  \/ \E r \in RunIds : ClearPageOut(r)
  \/ \E r \in RunIds : FinishLeave(r)
  \/ \E r \in RunIds : LeaveReturned(r)
  \/ \E removed \in SUBSET dom, added \in SUBSET (Elements \ born) :
        SwapContent(removed, added)
  \/ TransitionIn(AllOk)
  \/ \E r \in RunIds : ClearPageIn(r)
  \/ \E r \in RunIds : FinishEnter(r)
  \/ \E r \in RunIds : EnterReturned(r)

SpecNav == InitNav /\ [][NextNav]_vars

\* Page load and navigations with components that register callbacks late.
NextLate ==
  \/ Construct(AllOk)
  \/ \E r \in RunIds : FinishInit(r)
  \/ TransitionOut(FALSE)
  \/ \E e \in Elements, name \in {"pageIn", "pageOut"} : RegisterLate(e, name)
  \/ \E r \in RunIds :
        \E cb \in runs[r].pend, ok \in (IF runs[r].kind = "init" THEN {TRUE} ELSE BOOLEAN) :
           Settle(r, cb, ok)
  \/ \E r \in RunIds : ClearPageOut(r)
  \/ \E r \in RunIds : FinishLeave(r)
  \/ \E r \in RunIds : LeaveReturned(r)
  \/ \E removed \in SUBSET dom, added \in SUBSET (Elements \ born) :
        SwapContent(removed, added)
  \/ TransitionIn(AllOk)
  \/ \E r \in RunIds : ClearPageIn(r)
  \/ \E r \in RunIds : FinishEnter(r)
  \/ \E r \in RunIds : EnterReturned(r)

SpecLate == InitNav /\ [][NextLate]_vars

\* transitionIn is about to be called: the new content is in the document,
\* the window has some size, which Resize holds.
InitEnter ==
  /\ SubsIdle
  /\ PageIdle("enter")
  /\ dom \in SUBSET Elements
  /\ born = dom
  /\ scroll = 0
  /\ winWidth \in WinSizes
  /\ winHeight = ViewportHeight
  /\ resizeWidth = winWidth
  /\ resizeHeight = winHeight
  /\ ResizeIdle
  /\ TrackIdle
  /\ HeyIdle
  /\ EditorIdle
  /\ SvcIdle

NextEnter ==
  \/ \E w \in WinSizes, h \in {ViewportHeight, ViewportHeight + 1} : WindowResize(w, h)
  \/ Elapse
  \/ \E t \in timers : FireTimer(t)
  \/ TransitionIn(AllOk)
  \/ \E r \in RunIds : \E cb \in runs[r].pend, ok \in BOOLEAN : Settle(r, cb, ok)
  \/ \E r \in RunIds : ClearPageIn(r)
  \/ \E r \in RunIds : FinishEnter(r)
  \/ \E r \in RunIds : EnterReturned(r)

SpecEnter == InitEnter /\ [][NextEnter]_vars

\* The ObserverManager singleton right after getInstance().
InitManager ==
  /\ SubsIdle
  /\ LifeIdle("manager")
  /\ dom = {}
  /\ born = {}
  /\ scroll = 0
  /\ ExtIdle

NextManager ==
  \/ \E e \in ManagerElems, c \in ManagerConfigs : ManagerAdd(e, c)
  \/ \E e \in ManagerElems : ManagerRemove(e)

SpecManager == InitManager /\ [][NextManager]_vars

----------------------------------------------------------------------------
(* Properties *)

IdsOf(reg) == [i \in 1..Len(reg) |-> reg[i].id]

\* The callbacks a log records under event name, in call order.
CallsOf(log, name) ==
  LET sel == SelectSeq(log, LAMBDA e : e.ev = name)
  IN  [i \in 1..Len(sel) |-> sel[i].cb]

\* The callbacks a log records as called under event name.
StartedIds(log, name) ==
  {log[j].cb : j \in {i \in 1..Len(log) : log[i].ev = name}}

HasEvent(log, name) == \E i \in 1..Len(log) : log[i].ev = name

\* A callback of the log threw synchronously.
HasThrow(log) == \E i \in 1..Len(log) : ~log[i].ok

\* Run r is created by this step.
Starts(r, kind) == r = Len(runs) + 1 /\ Len(runs') = r /\ runs'[r].kind = kind

\* Run r goes on after its awaits in this step: it runs the destroy or the
\* mount callbacks.
Resumes(r, kind) ==
  /\ r \in RunIds
  /\ runs[r].kind = kind
  /\ runs[r].pc = "cleared"
  /\ runs'[r].pc # "cleared"

\* C1: a notify pass invokes exactly the live callbacks, in non-decreasing
\* priority order, and callbacks of equal priority in the order in which
\* they were added (identities are handed out in order of addition).
C1_NotifyPriorityOrder ==
  /\ [](\A i, j \in 1..Len(notified) :
          i < j => \/ notified[i].priority < notified[j].priority
                   \/ /\ notified[i].priority = notified[j].priority
                      /\ notified[i].id < notified[j].id)
  /\ [][notifyCount' # notifyCount =>
          /\ Len(notified') = Len(subscribers)
          /\ {notified'[i] : i \in 1..Len(notified')}
               = {subscribers[i] : i \in 1..Len(subscribers)}]_vars

\* A pass over three callbacks, two of equal priority, one of them added
\* after a callback it is called before, with one subscriber removed.
C1_Witness ==
  /\ Len(notified) >= 3
  /\ nextSym > Len(notified)
  /\ \E i, j \in 1..Len(notified) :
       i < j /\ notified[i].priority = notified[j].priority
  /\ \E i, j \in 1..Len(notified) :
       i < j /\ notified[i].id > notified[j].id

\* C2: in a transitionOut in which a pageOut promise rejected, the rejection
\* does not fail the transition, every registered pageOut callback was
\* started, destroy callbacks run only when all promises have settled, and
\* each destroy callback is then run exactly once.
C2_RejectedPageOutIsolated ==
  /\ [](\A r \in RunIds :
          (runs[r].kind = "out" /\ runs[r].rejected # {}) =>
             /\ runs[r].pc = "failed" => HasThrow(runs[r].log)
             /\ runs[r].pc = "await" =>
                  \A i \in 1..Len(pageOut) :
                     pageOut[i].id \in StartedIds(runs[r].log, "pageOut")
             /\ HasEvent(runs[r].log, "destroy") => runs[r].pend = {})
  /\ [][\A r \in RunIds :
          (Resumes(r, "out") /\ runs[r].rejected # {} /\ runs'[r].pc = "returned") =>
             /\ Len(CallsOf(runs'[r].log, "destroy")) = Len(destroy)
             /\ \A i \in 1..Len(destroy) :
                  Cardinality({j \in 1..Len(runs'[r].log) :
                      /\ runs'[r].log[j].ev = "destroy"
                      /\ runs'[r].log[j].cb = destroy[i].id}) = 1]_vars

\* A finished transitionOut with two pageOut callbacks, one rejected, the
\* other fulfilled, that ran a destroy callback.
C2_Witness ==
  \E r \in RunIds :
    /\ runs[r].kind = "out"
    /\ runs[r].pc = "done"
    /\ Cardinality(runs[r].rejected) = 1
    /\ Len(CallsOf(runs[r].log, "pageOut")) >= 2
    /\ Len(CallsOf(runs[r].log, "destroy")) >= 1


\* s is the beginning of t.
IsPrefix(s, t) == Len(s) <= Len(t) /\ \A i \in 1..Len(s) : s[i] = t[i]

\* C3: in every transitionOut no destroy callback is invoked while a
\* pageOut promise is unsettled; the destroy callbacks run in registration
\* order; the scroll reset comes after the last destroy callback; and when
\* transitionOut completes both registries are empty and the page is at the
\* top.
C3_DestroyAfterPageOutSettled ==
  /\ [](\A r \in RunIds :
          runs[r].kind = "out" =>
             /\ HasEvent(runs[r].log, "destroy") => runs[r].pend = {}
             /\ \A i, j \in 1..Len(runs[r].log) :
                  (runs[r].log[i].ev = "toTop" /\ runs[r].log[j].ev = "destroy")
                     => j < i
             /\ runs[r].pc = "done" => HasEvent(runs[r].log, "toTop"))
  /\ [][\A r \in RunIds :
          Resumes(r, "out") =>
             /\ IsPrefix(CallsOf(runs'[r].log, "destroy"), IdsOf(destroy))
             /\ runs'[r].pc = "returned" =>
                  /\ CallsOf(runs'[r].log, "destroy") = IdsOf(destroy)
                  /\ pageOut' = <<>>
                  /\ destroy' = <<>>
                  /\ scroll' = 0]_vars

\* A finished transitionOut that waited for two pageOut promises and then
\* ran two destroy callbacks before the scroll reset.
C3_Witness ==
  \E r \in RunIds :
    /\ runs[r].kind = "out"
    /\ runs[r].pc = "done"
    /\ Len(CallsOf(runs[r].log, "pageOut")) >= 2
    /\ Len(CallsOf(runs[r].log, "destroy")) >= 2
    /\ HasEvent(runs[r].log, "toTop")
    /\ scroll = 0

\* C4: in every transitionIn createCycles runs first, the pageIn callbacks
\* are then started in registration order, no mount callback is invoked
\* while a pageIn promise is unsettled, the mount callbacks run in
\* registration order, and when transitionIn completes the pageIn and mount
\* registries are empty.
C4_MountAfterPageInSettled ==
  /\ [](\A r \in RunIds :
          runs[r].kind = "in" =>
             /\ runs[r].log[1].ev = "createCycles"
             /\ \A i, j \in 1..Len(runs[r].log) :
                  (runs[r].log[i].ev = "bind" /\ runs[r].log[j].ev = "pageIn")
                     => i < j
             /\ HasEvent(runs[r].log, "mount") => runs[r].pend = {}
             /\ \A i, j \in 1..Len(runs[r].log) :
                  (runs[r].log[i].ev = "pageIn" /\ runs[r].log[j].ev = "mount")
                     => i < j)
  /\ [][\A r \in 1..MaxRuns :
          Starts(r, "in") =>
             /\ IsPrefix(CallsOf(runs'[r].log, "pageIn"), IdsOf(pageIn'))
             /\ runs'[r].pc = "await" =>
                  CallsOf(runs'[r].log, "pageIn") = IdsOf(pageIn')]_vars
  /\ [][\A r \in RunIds :
          Resumes(r, "in") =>
             /\ IsPrefix(CallsOf(runs'[r].log, "mount"), IdsOf(mount))
             /\ runs'[r].pc = "returned" =>
                  /\ CallsOf(runs'[r].log, "mount") = IdsOf(mount)
                  /\ pageIn' = <<>>
                  /\ mount' = <<>>]_vars

\* A finished transitionIn that bound an element, waited for two pageIn
\* promises, one of them rejected, and then ran two mount callbacks.
C4_Witness ==
  \E r \in RunIds :
    /\ runs[r].kind = "in"
    /\ runs[r].pc = "done"
    /\ HasEvent(runs[r].log, "bind")
    /\ Len(CallsOf(runs[r].log, "pageIn")) >= 2
    /\ runs[r].rejected # {}
    /\ Len(CallsOf(runs[r].log, "mount")) >= 2
    /\ pageIn = <<>>
    /\ mount = <<>>

\* C5 (as claimed): at the initial page load no mount callback is invoked
\* while a pageIn promise started by that load is unsettled.
C5_InitialLoadAwaitsPageIn ==
  \A r \in RunIds :
    (runs[r].kind = "init" /\ HasEvent(runs[r].log, "mount"))
       => runs[r].pend = {}

\* The element intersects the viewport: rect.top < viewport height and
\* rect.bottom > 0, the viewport height being the one Resize holds.
IntersectsViewport(e) ==
  /\ e \in dom
  /\ DocTop(e) - scroll < resizeHeight
  /\ DocBottom(e) - scroll > 0

\* C6: when runPageOut dispatches a callback registered with {element}, its
\* body is invoked if and only if the element's rect intersects the
\* viewport at that moment; a skipped body leaves a promise that fulfils;
\* a callback registered without an element always has its body invoked.
C6_GuardTestedAtDispatch ==
  /\ [](\A r \in RunIds :
          runs[r].kind = "out" =>
             \A i \in 1..Len(runs[r].log) :
                (runs[r].log[i].ev = "pageOut" /\ ~runs[r].log[i].flag)
                   => /\ runs[r].log[i].ok
                      /\ runs[r].log[i].cb \notin runs[r].rejected)
  /\ [][\A r \in 1..MaxRuns :
          Starts(r, "out") =>
             \A i \in 1..Len(runs'[r].log) :
                /\ runs'[r].log[i].ev = "pageOut"
                /\ runs'[r].log[i].cb = pageOut[i].id
                /\ pageOut[i].guard = 0 => runs'[r].log[i].flag
                /\ pageOut[i].guard # 0 =>
                     (runs'[r].log[i].flag <=> IntersectsViewport(pageOut[i].guard))]_vars

\* runPageOut has just dispatched a guarded callback whose element was in
\* view when it was registered and is out of view now, so its body was
\* skipped, together with an unguarded callback, whose body was invoked.
C6_Witness ==
  \E r \in RunIds :
    /\ runs[r].kind = "out"
    /\ runs[r].pc = "await"
    /\ Len(pageOut) = Len(runs[r].log)
    /\ \E i \in 1..Len(pageOut) :
         /\ pageOut[i].guard # 0
         /\ runs[r].log[i].cb = pageOut[i].id
         /\ ~runs[r].log[i].flag
         /\ DocTop(pageOut[i].guard) - pageOut[i].reg < resizeHeight
         /\ DocBottom(pageOut[i].guard) - pageOut[i].reg > 0
    /\ \E i \in 1..Len(pageOut) :
         /\ pageOut[i].guard = 0
         /\ runs[r].log[i].flag


\* The element's attribute names a module whose default export is a function.
HasFunctionBinding(e) == AttrOf(e) \in {"cycle", "ilya"}

\* The log records an invocation of the binding of e with this outcome.
Bound(log, e, ok) ==
  \E i \in 1..Len(log) : log[i].ev = "bind" /\ log[i].cb = e /\ log[i].ok = ok

\* The calls of clearModuleInitialization made for element e.
Clears(e) ==
  Cardinality({r \in RunIds : runs[r].kind = "clear" /\ runs[r].log[1].cb = e})

\* C7: over any sequence of createCycles calls the binding of an element
\* returns normally at most once (once more only for each call of
\* clearModuleInitialization made for the element in between), and no call
\* invokes the binding of an element that is already marked initialized.
C7_BindingInvokedAtMostOnce ==
  /\ [](\A e \in Elements : successes[e] <= 1 + Clears(e))
  /\ [][\A e \in initialized : invocations'[e] = invocations[e]]_vars

\* Two calls of createCycles with an initialized element in the document
\* throughout: the first bound it, the second invoked no binding at all.
C7_Witness ==
  /\ Len(runs) >= 2
  /\ runs[1].kind = "scan"
  /\ runs[2].kind = "scan"
  /\ \E e \in dom \cap initialized :
       /\ Bound(runs[1].log, e, TRUE)
       /\ successes[e] = 1
       /\ invocations[e] = 1
  /\ ~HasEvent(runs[2].log, "bind")

\* C8: a binding that throws does not stop the scan: every uninitialized
\* element of the document with a function binding is invoked by every
\* createCycles call, so also the elements behind a throwing one and, at
\* the next call, the element whose binding threw; an element whose binding
\* threw is unmarked afterwards, and an element is marked only by an
\* invocation that returned normally.
C8_ThrowingBindingIsRetried ==
  /\ [](\A e \in initialized : successes[e] >= 1)
  /\ [][\A r \in 1..MaxScans :
          Starts(r, "scan") =>
             /\ \A e \in dom :
                  (e \notin initialized /\ HasFunctionBinding(e)) =>
                     /\ invocations'[e] = invocations[e] + 1
                     /\ Bound(runs'[r].log, e, TRUE) \/ Bound(runs'[r].log, e, FALSE)
             /\ \A e \in Elements :
                  Bound(runs'[r].log, e, FALSE) => e \notin initialized'
             /\ \A e \in initialized' \ initialized :
                  Bound(runs'[r].log, e, TRUE)]_vars

\* A scan in which a binding threw and a binding behind it was still
\* invoked, followed by a scan that invoked the thrower again, this time
\* with success.
C8_Witness ==
  \E r1, r2 \in RunIds : \E e \in Elements :
    /\ r1 < r2
    /\ runs[r1].kind = "scan"
    /\ runs[r2].kind = "scan"
    /\ \E i, j \in 1..Len(runs[r1].log) :
         /\ i < j
         /\ runs[r1].log[i] = Ev("bind", e, TRUE, FALSE)
         /\ runs[r1].log[j].ev = "bind"
    /\ Bound(runs[r2].log, e, TRUE)
    /\ e \in initialized
    /\ invocations[e] = 2

\* C9 (as claimed): whatever a lifecycle callback does, transitionOut and
\* transitionIn fulfil: neither ever rejects.
C9_TransitionsNeverReject ==
  \A r \in RunIds :
    runs[r].kind \in {"out", "in"} => runs[r].pc # "failed"

\* The callbacks a run has invoked.
InvokedBy(r) ==
  {runs[r].log[i].cb :
     i \in {j \in 1..Len(runs[r].log) :
              runs[r].log[j].ev \in {"pageIn", "pageOut", "mount", "destroy"}}}

\* C10 (as claimed): the registries are single-use, a callback registered
\* once is never invoked by two different runs.
C10_CallbackInvokedByOneRun ==
  \A r1, r2 \in RunIds :
    r1 # r2 => InvokedBy(r1) \cap InvokedBy(r2) = {}

\* C11 (as claimed): every burst of resize events ends with exactly one
\* notification: Resize has notified once for every debounce timer that
\* has fired.
C11_EveryBurstNotifiesOnce == Len(resizeLog) = fired

\* C11: at most one debounce timer is pending at any moment, and it is the
\* one Resize holds; a timer only fires when update has not been called for
\* the debounce delay; a burst of update calls ends with at most one
\* notification, made when the timer fires, and with exactly one if and
\* only if the window's dimensions then differ from the stored ones; the
\* notification carries the window's dimensions at that time.
C11_DebouncedNotification ==
  /\ [](/\ Cardinality(timers) <= 1
        /\ \A t \in timers : timeoutId = t.id /\ t.remaining = debounceDelay - quiet)
  /\ [][resizeLog' # resizeLog => fired' = fired + 1]_vars
  /\ [][fired' # fired =>
             /\ quiet = debounceDelay
             /\ timers' = {}
             /\ IF winWidth # resizeWidth \/ winHeight # resizeHeight
                THEN /\ resizeLog' = Append(resizeLog,
                                       [width |-> winWidth, height |-> winHeight])
                     /\ resizeWidth' = winWidth
                     /\ resizeHeight' = winHeight
                ELSE resizeLog' = resizeLog]_vars

\* A burst of three update calls, each made while the timer of the previous
\* one was pending, has ended with one notification carrying the final
\* dimensions.
C11_Witness ==
  /\ burst >= 3
  /\ fired = 1
  /\ timers = {}
  /\ Len(resizeLog) = 1
  /\ resizeLog[1] = [width |-> winWidth, height |-> winHeight]
  /\ resizeWidth = winWidth
  /\ resizeHeight = winHeight
\* The identities of the entries of a subscriber list.
SubIds(subs) == {subs[i].id : i \in 1..Len(subs)}

\* C12: the function returned by add removes exactly its subscription: a
\* step that removes leaves every other subscriber in place and in order;
\* an identity that is gone never comes back, so no later notify pass
\* invokes it; and removing an identity that is absent changes nothing.
C12_UnsubscribeRemovesExactlyOne ==
  /\ [](/\ SubIds(subscribers) \subseteq 1..nextSym
        /\ \A id \in 1..MaxSubs :
             id \notin SubIds(subscribers) => RemoveEntry(subscribers, id) = subscribers)
  /\ [][Len(subscribers') < Len(subscribers) =>
          \E k \in 1..Len(subscribers) :
             subscribers' = SubSeq(subscribers, 1, k - 1)
                              \o SubSeq(subscribers, k + 1, Len(subscribers))]_vars
  /\ [][\A id \in 1..nextSym :
          id \notin SubIds(subscribers) =>
             /\ id \notin SubIds(subscribers')
             /\ notifyCount' # notifyCount => id \notin SubIds(notified')]_vars

\* A notify pass made after the first-added of three subscriptions of one
\* priority was removed: it invoked the two that remain, in their order.
C12_Witness ==
  /\ notifyCount >= 1
  /\ Len(subscribers) = 2
  /\ notified = subscribers
  /\ nextSym = 3
  /\ SubIds(subscribers) = {2, 3}
  /\ subscribers[1].priority = subscribers[2].priority
  /\ subscribers[1].id = 2
\* C13 (as claimed): once a Track has computed its value, the value lies
\* within the configured bounds [min, max].
C13_ValueWithinConfiguredBounds ==
  \A t \in 1..Len(tracks) :
    tracks[t].calls > 0 =>
       /\ RatLe(tracks[t].config.bounds[1], tracks[t].value)
       /\ RatLe(tracks[t].value, tracks[t].config.bounds[2])

\* The log is a scroll of the page of C14 over the Track of C14: an element
\* spanning [100, 300] under the default configuration, a viewport height
\* of 800, scroll notifications only, at increasing positions, the first of
\* them at or above the start bound.
IsScrollPastElement ==
  /\ Len(tracks) = 1
  /\ tracks[1].el = [top |-> 100, bottom |-> 300]
  /\ tracks[1].config = DEFAULT_CONFIG
  /\ ~tracks[1].destroyed
  /\ Len(trackLog) >= 1
  /\ trackLog[1].scroll <= -700
  /\ \A i \in 1..Len(trackLog) :
       /\ trackLog[i].ev = "scroll"
       /\ trackLog[i].wh = 800
       /\ i > 1 => trackLog[i - 1].scroll < trackLog[i].scroll

\* C14 (as claimed): scrolling past the element yields non-decreasing
\* values, 0 at or before the start bound and 1 once the position has
\* passed the end bound.
C14_ScrollDrivesValueToOne ==
  IsScrollPastElement =>
    \A i \in 1..Len(trackLog) :
       /\ i > 1 => RatLe(trackLog[i - 1].values[1], trackLog[i].values[1])
       /\ trackLog[i].scroll <= -700 => trackLog[i].values[1] = RatInt(0)
       /\ trackLog[i].scroll >= 300 => trackLog[i].values[1] = RatInt(1)

\* C15: destroy() releases the Scroll subscription and the Resize
\* subscription and then calls Observe.destroy(); a destroyed Track is in
\* neither subscriber list and has no callback, and no later step, a Scroll
\* or Resize notification in particular, changes its value or its bounds or
\* calls its callback.
C15_DestroyedTrackIsSilent ==
  /\ [](\A t \in 1..Len(tracks) :
          tracks[t].destroyed =>
             /\ tracks[t].scrollSub \notin SubIds(scrollSubs)
             /\ tracks[t].resizeSub \notin SubIds(resizeSubs)
             /\ ~tracks[t].callback
             /\ tracks[t].trace = <<"scrollSub", "resizeSub", "Observe.destroy">>)
  /\ [][\A t \in 1..Len(tracks) :
          tracks[t].destroyed =>
             /\ tracks'[t].value = tracks[t].value
             /\ tracks'[t].bounds = tracks[t].bounds
             /\ tracks'[t].calls = tracks[t].calls
             /\ Len(trackLog') > Len(trackLog) =>
                  t \notin trackLog'[Len(trackLog')].called]_vars

\* A Track whose callback had been called was destroyed; a Scroll and a
\* Resize notification came afterwards, the page at a position where the
\* element is in the viewport.
C15_Witness ==
  \E t \in 1..Len(tracks) :
    /\ tracks[t].destroyed
    /\ tracks[t].calls >= 1
    /\ IsIntersecting(tracks[t].el, scroll, winHeight)
    /\ \E i, j \in 1..Len(trackLog) :
         /\ trackLog[i].ev = "scroll"
         /\ trackLog[j].ev = "resize"
         /\ t \in trackLog[i].destroyed
         /\ t \in trackLog[j].destroyed

\* C21: once destroy() has been called on a Track it is not registered and
\* has no callback, and no later step (an intersection entry, a Scroll or a
\* Resize notification, start(), stop()) calls its callback, changes its
\* value or registers it again: a start() after destroy() changes nothing.
\* start() on a started Track changes nothing either.  A start() after a
\* stop() registers the Track again, and the entry that the native observer
\* then delivers for an element in the viewport calls the callback.
Quiet(tr) == [tr EXCEPT !.starts = 0]

C21_DestroyedStaysSilentStartResumes ==
  /\ [](\A t \in 1..Len(tracks) :
          tracks[t].destroys > 0 =>
             /\ ~tracks[t].started
             /\ tracks[t].destroyed
             /\ ~tracks[t].callback
             /\ tracks[t].scrollSub \notin SubIds(scrollSubs)
             /\ tracks[t].resizeSub \notin SubIds(resizeSubs))
  /\ [][\A t \in 1..Len(tracks) :
          /\ tracks[t].destroys > 0 =>
                /\ tracks'[t].calls = tracks[t].calls
                /\ tracks'[t].value = tracks[t].value
                /\ Quiet(tracks'[t]) = Quiet(tracks[t])
                /\ Len(trackLog') > Len(trackLog) =>
                     t \notin trackLog'[Len(trackLog')].called
          /\ (tracks[t].started /\ tracks'[t].starts > tracks[t].starts) =>
                Quiet(tracks'[t]) = Quiet(tracks[t])
          /\ (~tracks[t].started /\ tracks'[t].starts > tracks[t].starts
                 /\ tracks[t].destroys = 0) =>
                /\ tracks'[t].started
                /\ tracks'[t].restarted
                /\ tracks'[t].io = "none"
          /\ (tracks[t].started /\ tracks[t].io = "none"
                 /\ tracks'[t].io = "in" /\ tracks[t].callback) =>
                tracks'[t].calls = tracks[t].calls + 1]_vars

\* A Track was started again after a stop() and the entry delivered then
\* called its callback a second time; no Scroll or Resize notification was
\* involved.
C21_Witness ==
  \E t \in 1..Len(tracks) :
    /\ tracks[t].restarted
    /\ tracks[t].started
    /\ tracks[t].io = "in"
    /\ tracks[t].calls = 2
    /\ trackLog = <<>>

\* C16 (as claimed): every Track made through onTrack has had destroy()
\* called exactly once as soon as a runDestroy has run after it was made.
C16_DestroyedOnceByNextRunDestroy ==
  \A t \in 1..Len(tracks) :
    Len(runs) > tracks[t].made => tracks[t].destroys = 1
\* The registered functions that an assignment of the last operation
\* called, and the function references in a list.
CallsOfAssign(a) == SelectSeq(heyOp.calls, LAMBDA c : c.asg = a)
RefsOf(fns) == [i \in 1..Len(fns) |-> fns[i].ref]

\* C17 (as claimed): an assignment hey[p] = v, made by the application or
\* by a handler, calls every function that was registered under p when the
\* assignment began, in registration order, once for each registration,
\* with the value, and calls nothing registered under another name; after
\* off(p, handler) the handler is not registered under p.
C17_EveryHandlerInvokedInOrder ==
  /\ heyOp.op = "set" =>
        /\ \A a \in 1..Len(heyOp.asgs) :
             LET A == heyOp.asgs[a]
                 mine == CallsOfAssign(a)
             IN  /\ RefsOf(mine) = RefsOf(A.before)
                 /\ \A j \in 1..Len(mine) :
                      mine[j].event = A.property /\ mine[j].data = A.value
        /\ \A j \in 1..Len(heyOp.calls) : heyOp.calls[j].asg \in 1..Len(heyOp.asgs)
        /\ heyOp.asgs[1].property = heyOp.property
        /\ heyOp.asgs[1].before = heyOp.before[heyOp.property]
  /\ (heyOp.op = "off" /\ ~heyOp.threw) =>
        \A i \in 1..Len(events[heyOp.property]) :
          events[heyOp.property][i].ref # heyOp.ref

\* C18 (as claimed): a write to a property of an object held in the state,
\* at depth one (hey.user.profile = v) and at depth two
\* (hey.user.profile.name = v), calls the handlers registered under the
\* name of the property.
C18_NestedWritesEmit ==
  (heyOp.op \in {"write", "deep"} /\ heyOp.before[heyOp.property] # <<>>)
     => heyOp.calls # <<>>

\* C19 (as claimed): a function registered by once is called at most once
\* by an operation, a handler that assigns the same property included, and
\* is not registered after it has been called.
C19_OnceHandlerRunsOnce ==
  \A j \in 1..Len(heyOp.calls) :
    heyOp.calls[j].ref[1] = "onceHandler" =>
       /\ \A k \in 1..Len(heyOp.calls) :
            heyOp.calls[k].ref = heyOp.calls[j].ref => k = j
       /\ \A e \in Names : \A i \in 1..Len(events[e]) :
            events[e][i].ref # heyOp.calls[j].ref

\* C20 (as claimed): a callback is called at once by handleEditor and then
\* with a value that differs from its previous one, and never after a
\* later handleEditor(null).
C20_NullRemovesDetection ==
  \A i \in 1..Len(editorLog) :
    /\ ~editorLog[i].removed
    /\ \A k \in 1..(i - 1) :
         (editorLog[k].observer = editorLog[i].observer /\
          \A m \in (k + 1)..(i - 1) : editorLog[m].observer # editorLog[i].observer)
            => editorLog[k].value # editorLog[i].value
    /\ (\A k \in 1..(i - 1) : editorLog[k].observer # editorLog[i].observer)
          => editorLog[i].immediate

\* The native observers of a group key that have not been disposed.
LiveNatives(key) ==
  {i \in 1..Len(natives) : natives[i].live /\ natives[i].key = key}

\* C22 (as claimed): after any sequence of addElement and removeElement
\* calls there is at most one native observer that is not disposed for
\* each (root, rootMargin, threshold); every group has an element and owns
\* the one native observer of its key; every tracked element has an entry
\* in exactly one group, an element that is not tracked in none; the
\* native observer of a group whose last element was removed is disposed.
C22_OneObserverPerConfiguration ==
  /\ \A c \in ManagerConfigs : Cardinality(LiveNatives(GroupKey(c))) <= 1
  /\ \A k \in DOMAIN groups :
        /\ DOMAIN groups[k].entries # {}
        /\ LiveNatives(k) = {groups[k].observer}
  /\ \A e \in ManagerElems :
        Cardinality(GroupsOf(groups, e)) = IF e \in tracked THEN 1 ELSE 0
  /\ \A i \in 1..Len(natives) :
        natives[i].live <=> \E k \in DOMAIN groups : groups[k].observer = i

\* C23 (as claimed): when transitionIn maps the pageIn callbacks,
\* Resize.width and Resize.height are the window's dimensions and the last
\* notification of Resize, if the window was ever resized, carried them.
C23_ResizeCurrentBeforePageIn ==
  \A i \in 1..Len(enterLog) :
    enterLog[i].started > 0 =>
      /\ enterLog[i].width = enterLog[i].winWidth
      /\ enterLog[i].height = enterLog[i].winHeight
      /\ enterLog[i].notified # <<>> =>
           enterLog[i].notified[Len(enterLog[i].notified)] =
             [width |-> enterLog[i].winWidth, height |-> enterLog[i].winHeight]

\* No callback is recorded twice as called under event name, in one run's
\* log or in the logs of two runs.
CalledOnce(name) ==
  /\ \A r \in RunIds :
        LET calls == CallsOf(runs[r].log, name)
        IN  Cardinality({calls[i] : i \in 1..Len(calls)}) = Len(calls)
  /\ \A r1, r2 \in RunIds :
        r1 < r2 => StartedIds(runs[r1].log, name) \cap StartedIds(runs[r2].log, name) = {}

\* C24 (as claimed): of two calls of transitionOut, the second made while
\* the first was waiting (neither rejected nor queued, it has started the
\* pageOut callbacks again), only one runs a destroy callback: none is run
\* by both.
C24_OverlappingNavigationsNotGuarded ==
  \A r2 \in RunIds : \A r1 \in runs[r2].over :
    StartedIds(runs[r1].log, "destroy") \cap StartedIds(runs[r2].log, "destroy") = {}

\* How many times a sequence holds x.
Occurrences(seq, x) == Cardinality({i \in 1..Len(seq) : seq[i] = x})

\* C25 (as claimed): a notify pass calls every subscriber that was
\* registered when it began exactly once, whatever add or remove a callback
\* calls during the pass.
C25_PassCallsEachSubscriberOnce ==
  \A n \in 1..Len(passLog) :
    \A i \in 1..Len(passLog[n].before) :
      Occurrences(passLog[n].calls, passLog[n].before[i].id) = 1

\* The callbacks now in a registry, and those that a run has called.
Registered ==
  UNION {{reg[i].id : i \in 1..Len(reg)} : reg \in {mount, destroy, pageIn, pageOut}}
Invoked == UNION {InvokedBy(r) : r \in RunIds}

\* C26 (as claimed): a callback that is no longer in its registry has been
\* called by a run of that registry; stated for the behaviours in which no
\* callback throws.
C26_RemovedOnlyAfterInvoked ==
  (\A r \in RunIds : ~HasThrow(runs[r].log)) =>
     \A cb \in 1..nextCb : cb \in Registered \/ cb \in Invoked

\* The entries of a registry that the binding of element e pushed.
EntriesOf(reg, e) == {i \in 1..Len(reg) : reg[i].owner = e}

\* C27 (as claimed): a binding that throws leaves the registries as they
\* were before it was invoked: every registry holds, for every element, one
\* entry for each invocation of its binding that returned normally, and
\* none for the invocations that threw.
C27_ThrowingBindingLeavesNoCallbacks ==
  \A e \in Elements :
    \A reg \in {mount, destroy, pageIn, pageOut} :
      Cardinality(EntriesOf(reg, e)) = successes[e]

\* C28 (as claimed): a function called by the emit of hey[p] = v, none of
\* whose functions assigns, reads as hey[p] the value p had before the
\* assignment; when the functions have returned hey[p] reads v; when one of
\* them threw, the state still holds the former value.
C28_HandlerReadsPreviousValue ==
  (heyOp.op = "set" /\ Len(heyOp.asgs) = 1) =>
     /\ \A j \in 1..Len(heyOp.calls) : heyOp.calls[j].read = heyOp.asgs[1].seen
     /\ heyOp.asgs[1].returned =>
          ProxyGet([state |-> heyState], heyOp.property) = heyOp.asgs[1].value
     /\ heyOp.threw => heyState[heyOp.property] = heyOp.asgs[1].seen

Settled == \A r \in RebuildIds : rebuilds[r].pc \in {"done", "failed"}

\* C29: when every rebuild has completed and the one started last has
\* succeeded, currentBuildResult is the output of the rebuild started last.
C29_ServedBuildIsLatestStarted ==
  (nav = "dev" /\ Settled /\ rebuilds[Len(rebuilds)].pc = "done")
    => currentBuildResult = Len(rebuilds)

====
